---- MODULE Spec2Model ----
(***************************************************************************)
(* Model of the deep OSINT crawler (deep-crawler.ts: generateCryptoScam-   *)
(* Dorks, executeSearch, crawlPage, calculateScamScore, deepCrawl) and of  *)
(* the aggregation entry point (master-recon.ts: masterRecon).             *)
(*                                                                         *)
(* Strings that the code searches with String.includes are sequences of    *)
(* one-character strings, so that substring tests are computed.            *)
(***************************************************************************)
EXTENDS Integers, Sequences, FiniteSets, TLC

VARIABLES
    \* ---- deepCrawl: inputs
    target, initialEmails, initialUsernames,
    \* ---- deepCrawl: control and locals
    pc, dorkIdx, urlQueue, qIdx, visitedUrls, elapsed,
    \* ---- deepCrawl: the DeepCrawlResult under construction
    result,
    \* ---- deepCrawl: history of the run (not read by the actions' guards)
    fetchLog, lastOp, discovered, allFresh, steps,
    \* ---- calculateScamScore applied to drawn inputs
    \* ---- (scoreGiven: the length of the mention list the run starts from)
    scoreMentions, scoreTrust, scoreOut, scoreGiven,
    \* ---- masterRecon: inputs, control, the five adapter promises, the
    \* ---- MasterReconResult under construction, and which adapters threw
    reconUsername, shouldDeepCrawl, reconPc, settled, websiteUrl, reconResult, threw,
    \* ---- generateCryptoScamDorks applied to drawn inputs
    dorkUsername, dorkEmails, dorkOut,
    \* ---- the merge of masterRecon applied to drawn contributions: what the
    \* ---- sources returned, the blocks merged so far, the result under
    \* ---- construction, the result of merging each of these blocks once, and
    \* ---- the position
    mergeInputs, mergeLog, mergeResult, mergeOnce, mergePc,
    \* ---- getBrowser and closeBrowser of lib/browser.ts: the module variable,
    \* ---- each caller's position, launch and returned instance, the number
    \* ---- of launches, the browsers still connected, the browser being
    \* ---- closed, and whether a disconnect or a close has occurred
    browserInstance, callerPc, callerLaunch, callerGot, launches, connected,
    closing, disturbed,
    \* ---- the per-user rate limit of Discord commands: the clock, the map
    \* ---- discordRateLimiter, the number of interactions handled, the last
    \* ---- result of checkDiscordRateLimit, and per user the times of the
    \* ---- allowed checks, the number of commands executed and the denial
    \* ---- that was the user's latest check
    now, discordRateLimiter, interactions, verdict, allowedAt, executed, lastDenied,
    \* ---- the configured config.RATE_LIMIT_MAX_REQUESTS
    configMaxRequests,
    \* ---- the REST API and its cache: CacheClient.connected, the keys held
    \* ---- by Redis, and per request in flight its position in the handler,
    \* ---- its locals and the response sent; the number of requests received
    connected_, redisStore, reqPc, req, response, received,
    \* ---- the extractors: lastIndex of each module-level regular expression
    \* ---- the page at hand and the last extraction made from it (function,
    \* ---- page, value returned)
    lastIndex, document, lastCall,
    \* ---- the timing of deepCrawl: the loop it is in, the time since
    \* ---- startTime, the queries done, the URLs queued and fetched, and the
    \* ---- kind and start of the latest loop iteration
    tPc, clock, tDork, tQueued, tCrawled, iterKind, iterStart

crawlVars == <<target, initialEmails, initialUsernames, pc, dorkIdx, urlQueue,
               qIdx, visitedUrls, elapsed, result, fetchLog, lastOp,
               discovered, allFresh, steps>>
scoreVars == <<scoreMentions, scoreTrust, scoreOut, scoreGiven>>
reconVars == <<reconUsername, shouldDeepCrawl, reconPc, settled, websiteUrl,
               reconResult, threw>>
dorkVars == <<dorkUsername, dorkEmails, dorkOut>>
mergeVars == <<mergeInputs, mergeLog, mergeResult, mergeOnce, mergePc>>
browserVars == <<browserInstance, callerPc, callerLaunch, callerGot, launches,
                 connected, closing, disturbed>>
rateVars == <<now, discordRateLimiter, interactions, verdict, allowedAt, executed,
              lastDenied, configMaxRequests>>
cacheVars == <<connected_, redisStore, reqPc, req, response, received>>
regexVars == <<lastIndex, document, lastCall>>
timeVars == <<tPc, clock, tDork, tQueued, tCrawled, iterKind, iterStart>>
libVars == <<browserVars, rateVars, cacheVars, regexVars, timeVars>>
vars == <<crawlVars, scoreVars, reconVars, dorkVars, mergeVars, libVars>>

(***************************************************************************)
(* Generic helpers                                                         *)
(***************************************************************************)
Max(a, b) == IF a >= b THEN a ELSE b
Min(a, b) == IF a <= b THEN a ELSE b

Range(s) == {s[i] : i \in 1..Len(s)}

\* Array.prototype.slice(0, n)
Take(s, n) == SubSeq(s, 1, Min(n, Len(s)))

\* [...new Set(s)]: the first occurrence of every value, in order
Dedup(s) ==
    LET first == SelectSeq([i \in 1..Len(s) |-> i],
                           LAMBDA i : \A j \in 1..(i - 1) : s[j] # s[i])
    IN  [k \in 1..Len(first) |-> s[first[k]]]

NoDuplicates(s) == \A i, j \in 1..Len(s) : s[i] = s[j] => i = j

\* String.prototype.includes on character sequences
Includes(s, k) ==
    \E i \in 0..(Len(s) - Len(k)) : SubSeq(s, i + 1, i + Len(k)) = k

\* String.prototype.indexOf (0-based; -1 when absent)
IndexOf(s, k) ==
    IF Includes(s, k)
    THEN CHOOSE i \in 0..(Len(s) - Len(k)) :
            /\ SubSeq(s, i + 1, i + Len(k)) = k
            /\ \A j \in 0..(i - 1) : SubSeq(s, j + 1, j + Len(k)) # k
    ELSE -1

\* Sequences over S of length at most n
SeqsUpTo(S, n) == UNION {[1..k -> S] : k \in 0..n}

(***************************************************************************)
(* Limits (deep-crawler.ts lines 22-25).  Time is counted in ticks of      *)
(* 10000 ms, the timeout of page.goto.  The page ceiling, the per-query    *)
(* result cap and the execution time limit are scaled down so that the     *)
(* budgets are exhausted within a small run; the code's values are 30, 5   *)
(* and 180000 ms (18 ticks).                                               *)
(***************************************************************************)
MAX_PAGES_PER_DORK == 2
MAX_TOTAL_PAGES == 2
MAX_EXECUTION_TIME_MS == 1
\* page.goto timeout: 10000 ms = 1 tick
CRAWL_TIMEOUT_MS == 1

(***************************************************************************)
(* Scam keywords                                                           *)
(***************************************************************************)
KwRugPull == <<"r", "u", "g", " ", "p", "u", "l", "l">>
KwRugpullOneWord == <<"r", "u", "g", "p", "u", "l", "l">>
KwScam == <<"s", "c", "a", "m">>
KwScammer == <<"s", "c", "a", "m", "m", "e", "r">>
KwFraud == <<"f", "r", "a", "u", "d">>
KwExitScam == <<"e", "x", "i", "t", " ", "s", "c", "a", "m">>
KwPonzi == <<"p", "o", "n", "z", "i">>
KwHoneypot == <<"h", "o", "n", "e", "y", "p", "o", "t">>
KwFakeProject == <<"f", "a", "k", "e", " ", "p", "r", "o", "j", "e", "c", "t">>
KwStolenFunds == <<"s", "t", "o", "l", "e", "n", " ", "f", "u", "n", "d", "s">>
KwDumpedTokens == <<"d", "u", "m", "p", "e", "d", " ", "t", "o", "k", "e", "n", "s">>
KwAbandonedProject == <<"a", "b", "a", "n", "d", "o", "n", "e", "d", " ", "p", "r", "o", "j", "e", "c", "t">>
KwDevDisappeared == <<"d", "e", "v", " ", "d", "i", "s", "a", "p", "p", "e", "a", "r", "e", "d">>
KwRugPulled == <<"r", "u", "g", " ", "p", "u", "l", "l", "e", "d">>
KwWarning == <<"w", "a", "r", "n", "i", "n", "g">>
KwStolen == <<"s", "t", "o", "l", "e", "n">>
\* the fallback keyword of deepCrawl when no scam keyword is found in a context
KwUnknown == <<"u", "n", "k", "n", "o", "w", "n">>

SCAM_KEYWORDS ==
    << KwRugPull, KwRugpullOneWord, KwScam, KwScammer, KwFraud, KwExitScam,
       KwPonzi, KwHoneypot, KwFakeProject, KwStolenFunds, KwDumpedTokens,
       KwAbandonedProject, KwDevDisappeared, KwRugPulled, KwWarning >>

(***************************************************************************)
(* calculateScamScore                                                      *)
(***************************************************************************)
\* Object.entries(severityMap): the entries in insertion order
severityMap ==
    << <<KwRugPull, 25>>, <<KwRugpullOneWord, 25>>, <<KwScam, 20>>,
       <<KwScammer, 25>>, <<KwFraud, 20>>, <<KwExitScam, 30>>,
       <<KwPonzi, 25>>, <<KwHoneypot, 20>>, <<KwStolen, 15>>,
       <<KwWarning, 10>> >>

\* the value the table lists under exactly this key (0 when it is no key)
TableValue(keyword) ==
    IF \E i \in 1..Len(severityMap) : severityMap[i][1] = keyword
    THEN severityMap[CHOOSE i \in 1..Len(severityMap) : severityMap[i][1] = keyword][2]
    ELSE 0

\* the inner loop: the first entry whose key the mention's keyword includes
MentionPoints(keyword) ==
    LET hits == {i \in 1..Len(severityMap) : Includes(keyword, severityMap[i][1])}
    IN  IF hits = {} THEN 0
        ELSE severityMap[CHOOSE i \in hits : \A j \in hits : i <= j][2]

RECURSIVE RawScore(_)
RawScore(mentions) ==
    IF mentions = <<>> THEN 0
    ELSE RawScore(SubSeq(mentions, 1, Len(mentions) - 1))
         + MentionPoints(mentions[Len(mentions)].keyword)

\* A scorer without the final Math.max / Math.min.
calculateScamScoreUnclamped(mentions, trustIndicators) ==
    RawScore(mentions) - Len(trustIndicators) * 5

\* A scorer in which trust indicators add to the score.
calculateScamScoreTrustAdds(mentions, trustIndicators) ==
    Max(0, Min(100, RawScore(mentions) + Len(trustIndicators) * 5))

calculateScamScore(mentions, trustIndicators) ==
    Max(0, Min(100, RawScore(mentions) - Len(trustIndicators) * 5))

(***************************************************************************)
(* Inputs of a run                                                         *)
(***************************************************************************)
\* deepCrawl(target) with the default seeds, and the call masterRecon makes:
\* the e-mails gathered so far, and the usernames gathered so far, which begin
\* with the target itself.
Targets == {"alice"}
SeedLists ==
    { [emails |-> <<>>, usernames |-> <<>>],
      [emails |-> <<"alice@x.io">>, usernames |-> <<"alice">>] }

\* Result URLs are numbered; one more than the page ceiling exist, so that a
\* run can discover more URLs than it may visit.
Urls == 1..(MAX_TOTAL_PAGES + 1)

(***************************************************************************)
(* generateCryptoScamDorks: the ten templates for the target, then two     *)
(* queries for each of the first three emails.  A dork is the pair of its  *)
(* template number and the string substituted into it.                     *)
(***************************************************************************)
TemplateDorks(username) == [i \in 1..10 |-> [tpl |-> i, subject |-> username]]

RECURSIVE EmailDorks(_)
EmailDorks(emails) ==
    IF emails = <<>> THEN <<>>
    ELSE <<[tpl |-> 11, subject |-> Head(emails)],
           [tpl |-> 12, subject |-> Head(emails)]>> \o EmailDorks(Tail(emails))

\* A query derivation that takes every known email.
generateCryptoScamDorksAllEmails(username, emails) ==
    TemplateDorks(username) \o EmailDorks(emails)

generateCryptoScamDorks(username, emails) ==
    TemplateDorks(username) \o EmailDorks(Take(emails, 3))

(***************************************************************************)
(* executeSearch.  The search engine's answer is either a transport        *)
(* failure (page.goto or $$eval throws) or the list of result links left   *)
(* by the href filter.                                                     *)
(***************************************************************************)
\* more links than executeSearch keeps: runs of consecutive URLs
OverlongLinks ==
    {[i \in 1..(MAX_PAGES_PER_DORK + 1) |-> ((u + i - 2) % Cardinality(Urls)) + 1] :
        u \in Urls}

SearchAnswers ==
    {[failed |-> TRUE, links |-> <<>>]}
    \cup {[failed |-> FALSE, links |-> l] :
            l \in SeqsUpTo(Urls, MAX_PAGES_PER_DORK) \cup OverlongLinks}

\* A search whose failure is not caught: it reaches deepCrawl's catch block.
executeSearchRethrows(answer) ==
    IF answer.failed
    THEN [urls |-> <<>>, thrown |-> TRUE]
    ELSE [urls |-> Take(answer.links, MAX_PAGES_PER_DORK), thrown |-> FALSE]

\* urls: the returned list; thrown: whether an exception leaves the function
executeSearch(answer) ==
    IF answer.failed
    THEN [urls |-> <<>>, thrown |-> FALSE]
    ELSE [urls |-> Take(answer.links, MAX_PAGES_PER_DORK), thrown |-> FALSE]

\* Whole ticks one search or one page visit may take: page.goto returns or
\* times out within CRAWL_TIMEOUT_MS (the shorter waits are below one tick).
SearchDurations == 0..CRAWL_TIMEOUT_MS
FetchDurations == 0..CRAWL_TIMEOUT_MS

(***************************************************************************)
(* Pages.  A document is what the browser hands to crawlPage: the title,   *)
(* the text (innerText), and the matches of the regular expressions on it. *)
(***************************************************************************)
UpperAlpha == <<"A","B","C","D","E","F","G","H","I","J","K","L","M",
                "N","O","P","Q","R","S","T","U","V","W","X","Y","Z">>
LowerAlpha == <<"a","b","c","d","e","f","g","h","i","j","k","l","m",
                "n","o","p","q","r","s","t","u","v","w","x","y","z">>

LowerChar(c) ==
    IF \E i \in 1..26 : UpperAlpha[i] = c
    THEN LowerAlpha[CHOOSE i \in 1..26 : UpperAlpha[i] = c]
    ELSE c

\* String.prototype.toLowerCase on character sequences
ToLowerCase(s) == [i \in 1..Len(s) |-> LowerChar(s[i])]

\* toLowerCase on the e-mail addresses of the documents and of the adapters
\* (every other string of the model is in lower case already)
LowerEmail(e) ==
    CASE e = "Bob@X.io" -> "bob@x.io"
      [] e = "Alice@X.io" -> "alice@x.io"
      [] OTHER -> e

\* u.replace('@', '') on the @mentions of the documents
StripAt(u) ==
    CASE u = "@bob_dev" -> "bob_dev"
      [] u = "@alice" -> "alice"
      [] OTHER -> u

IsSpace(c) == c = " "

\* String.prototype.trim
RECURSIVE TrimLeft(_)
TrimLeft(s) == IF s # <<>> /\ IsSpace(Head(s)) THEN TrimLeft(Tail(s)) ELSE s
RECURSIVE TrimRight(_)
TrimRight(s) ==
    IF s # <<>> /\ IsSpace(s[Len(s)]) THEN TrimRight(SubSeq(s, 1, Len(s) - 1)) ELSE s
Trim(s) == TrimRight(TrimLeft(s))

\* String.prototype.slice(start, end) with 0 <= start <= end <= length
Slice(s, start, end) == SubSeq(s, start + 1, end)

DocScamReport ==
    [ title |-> "Scam report",
      text |-> <<" ","E","x","i","t"," ","S","C","A","M","!">>,
      emailMatches |-> <<"Bob@X.io", "bob@x.io">>,
      usernameMatches |-> <<"@bob_dev", "@alice">>,
      ethMatches |-> <<"0xAA", "0xAA">>,
      socialMatches |-> <<"github.com/bob">> ]

DocClean ==
    [ title |-> "Blog",
      text |-> <<"a","l","l"," ","g","o","o","d">>,
      emailMatches |-> <<>>,
      usernameMatches |-> <<>>,
      ethMatches |-> <<>>,
      socialMatches |-> <<"t.me/alice", "github.com/bob">> ]

Docs == {DocScamReport, DocClean}

\* What a visit meets: a document, or an exception of the browser before any
\* text is read: in page.goto, or in page.content after page.title returned.
PageAnswers ==
    [doc : Docs, throwsAt : {"none"}]
    \cup [doc : {DocClean}, throwsAt : {"goto", "content"}]

EmptyCrawlResult(url) ==
    [ url |-> url, title |-> "", emails |-> <<>>, usernames |-> <<>>,
      wallets |-> <<>>, scamMentions |-> <<>>, socialLinks |-> <<>>,
      rawSnippet |-> <<>> ]

\* the contexts pushed by the keyword loop of crawlPage, for keywords k..15
RECURSIVE KeywordContexts(_, _)
KeywordContexts(textContent, k) ==
    IF k > Len(SCAM_KEYWORDS) THEN <<>>
    ELSE LET keyword == SCAM_KEYWORDS[k]
             lowerContent == ToLowerCase(textContent)
             rest == KeywordContexts(textContent, k + 1)
         IN  IF Includes(lowerContent, keyword)
             THEN LET idx == IndexOf(lowerContent, keyword)
                      start == Max(0, idx - 50)
                      end == Min(Len(textContent), idx + Len(keyword) + 50)
                  IN  <<Trim(Slice(textContent, start, end))>> \o rest
             ELSE rest

\* matches.map(e => e.toLowerCase()) and matches.map(u => u.replace('@', ''))
LowerEmails(matches) == [i \in 1..Len(matches) |-> LowerEmail(matches[i])]
StripAts(matches) == [i \in 1..Len(matches) |-> StripAt(matches[i])]

\* A crawlPage whose catch block returns what the document would have yielded.
crawlPageKeepsLeads(url, answer) ==
    [ url |-> url,
      title |-> answer.doc.title,
      emails |-> Dedup(LowerEmails(answer.doc.emailMatches)),
      usernames |-> Dedup(StripAts(answer.doc.usernameMatches)),
      wallets |-> Take(Dedup(answer.doc.ethMatches), 5),
      scamMentions |-> KeywordContexts(answer.doc.text, 1),
      socialLinks |-> Take(Dedup(answer.doc.socialMatches), 10),
      rawSnippet |-> Take(answer.doc.text, 1000) ]

crawlPage(url, answer) ==
    CASE answer.throwsAt = "goto" -> EmptyCrawlResult(url)
      [] answer.throwsAt = "content" ->
            [EmptyCrawlResult(url) EXCEPT !.title = answer.doc.title]
      [] OTHER ->
            [ url |-> url,
              title |-> answer.doc.title,
              emails |-> Dedup(LowerEmails(answer.doc.emailMatches)),
              usernames |-> Dedup(StripAts(answer.doc.usernameMatches)),
              wallets |-> Take(Dedup(answer.doc.ethMatches), 5),
              scamMentions |-> KeywordContexts(answer.doc.text, 1),
              socialLinks |-> Take(Dedup(answer.doc.socialMatches), 10),
              rawSnippet |-> Take(answer.doc.text, 1000) ]

(***************************************************************************)
(* deepCrawl                                                               *)
(***************************************************************************)
dorks == generateCryptoScamDorks(target, initialEmails)

\* const result: DeepCrawlResult = {...}
InitialResult(t, emails, usernames) ==
    [ originalTarget |-> t, executionTimeMs |-> 0, pagesAnalyzed |-> 0,
      allEmails |-> emails, allUsernames |-> <<t>> \o usernames,
      allWallets |-> <<>>, allSocialLinks |-> <<>>, scamMentions |-> <<>>,
      scamScore |-> 0, redFlags |-> <<>>, trustIndicators |-> <<>>,
      crawledPages |-> <<>>, errors |-> <<>> ]

\* A time check that lets an iteration start one tick past the limit.
TimeLimitReachedLate(e) == e > MAX_EXECUTION_TIME_MS + 1

\* Date.now() - startTime > MAX_EXECUTION_TIME_MS
TimeLimitReached(e) == e > MAX_EXECUTION_TIME_MS

\* result.pagesAnalyzed >= MAX_TOTAL_PAGES
PageCeilingReached(n) == n >= MAX_TOTAL_PAGES

\* An enqueue loop that puts each new URL at the front (a stack, not a queue).
RECURSIVE EnqueueAtFront(_, _, _)
EnqueueAtFront(queue, visited, urls) ==
    IF urls = <<>> THEN queue
    ELSE EnqueueAtFront(IF Head(urls) \notin visited /\ Len(queue) < MAX_TOTAL_PAGES
                        THEN <<Head(urls)>> \o queue ELSE queue,
                        visited, Tail(urls))

\* An enqueue loop without the test of the queue's length.
RECURSIVE EnqueueUnbounded(_, _, _)
EnqueueUnbounded(queue, visited, urls) ==
    IF urls = <<>> THEN queue
    ELSE EnqueueUnbounded(IF Head(urls) \notin visited
                          THEN Append(queue, Head(urls)) ELSE queue,
                          visited, Tail(urls))

\* for (const url of urls) if (!visitedUrls.has(url) && urlQueue.length < MAX_TOTAL_PAGES) push
RECURSIVE Enqueue(_, _, _)
Enqueue(queue, visited, urls) ==
    IF urls = <<>> THEN queue
    ELSE Enqueue(IF Head(urls) \notin visited /\ Len(queue) < MAX_TOTAL_PAGES
                 THEN Append(queue, Head(urls)) ELSE queue,
                 visited, Tail(urls))

\* A visited test that never finds the URL.
AlreadyVisitedNever(visited, url) == FALSE

\* visitedUrls.has(url)
AlreadyVisited(visited, url) == url \in visited

\* A page counter that adds the number of pages recorded so far.
PagesAfterVisitAddsLength(pages, n) == n + Len(pages)

\* result.pagesAnalyzed++ (pages: crawledPages after the push)
PagesAfterVisit(pages, n) == n + 1

\* SCAM_KEYWORDS.find(k => mention.toLowerCase().includes(k)) || 'unknown'
MentionKeyword(mention) ==
    LET hits == {k \in 1..Len(SCAM_KEYWORDS) :
                    Includes(ToLowerCase(mention), SCAM_KEYWORDS[k])}
    IN  IF hits = {} THEN KwUnknown
        ELSE SCAM_KEYWORDS[CHOOSE k \in hits : \A j \in hits : k <= j]

\* the scam mentions of one crawled page, with their source URL
PageMentions(crawlResult) ==
    [i \in 1..Len(crawlResult.scamMentions) |->
        [ keyword |-> MentionKeyword(crawlResult.scamMentions[i]),
          context |-> crawlResult.scamMentions[i],
          url |-> crawlResult.url ]]

\* the body of the crawl loop after the three checks, on the result
Aggregate(res, crawlResult) ==
    LET pages == Append(res.crawledPages, crawlResult)
    IN  [res EXCEPT
            !.crawledPages = pages,
            !.pagesAnalyzed = PagesAfterVisit(pages, res.pagesAnalyzed),
            !.allEmails = res.allEmails \o crawlResult.emails,
            !.allUsernames = res.allUsernames \o crawlResult.usernames,
            !.allWallets = res.allWallets \o crawlResult.wallets,
            !.allSocialLinks = res.allSocialLinks \o crawlResult.socialLinks,
            !.scamMentions = res.scamMentions \o PageMentions(crawlResult)]

KwRug == <<"r", "u", "g">>

\* lines 372-401: deduplicate, red flags, trust indicators, score
Finalize(res) ==
    LET emails == Dedup(res.allEmails)
        usernames == Dedup(res.allUsernames)
        wallets == Dedup(res.allWallets)
        social == Dedup(res.allSocialLinks)
        flags ==
            (IF Len(res.scamMentions) > 0 THEN <<"scam_mentions">> ELSE <<>>)
            \o (IF \E i \in 1..Len(res.scamMentions) :
                      Includes(res.scamMentions[i].keyword, KwRug)
                THEN <<"rug_pull">> ELSE <<>>)
            \o (IF Len(wallets) > 3 THEN <<"multiple_wallets">> ELSE <<>>)
        trust ==
            (IF Len(social) > 5 THEN <<"social_presence">> ELSE <<>>)
            \o (IF res.pagesAnalyzed > 10 /\ Len(res.scamMentions) = 0
                THEN <<"no_scam_mentions">> ELSE <<>>)
    IN  [res EXCEPT
            !.allEmails = emails, !.allUsernames = usernames,
            !.allWallets = wallets, !.allSocialLinks = social,
            !.redFlags = flags, !.trustIndicators = trust,
            !.scamScore = calculateScamScore(res.scamMentions, trust)]

\* A setup whose failure is caught and reported in errors.
SetupFailureOutcomeCaught(res) ==
    [pc |-> "returned", result |-> [res EXCEPT !.errors = Append(@, "setup failed")]]

\* getBrowser() / newPage() are awaited before the try block: their exception
\* rejects the promise deepCrawl returned, and no result is produced.
SetupFailureOutcome(res) == [pc |-> "rejected", result |-> res]

(***************************************************************************)
(* masterRecon: the adapters' answers and the result record                *)
(***************************************************************************)
\* null, and the value of a promise that is not settled yet
Null == [null |-> TRUE]
Pending == [status |-> "pending"]

\* the five calls of the Promise.allSettled array, in its order
Adapters == <<"x", "github", "pastes", "reddit", "platforms">>

\* username.replace(/^@/, '').replace(/https?:\/\/(x\.com|twitter\.com)\//, '').trim()
\* on the usernames of Usernames
CleanUsername(u) ==
    CASE u = "@alice" -> "alice"
      [] u = "https://x.com/alice " -> "alice"
      [] OTHER -> u

Usernames == {"alice", "@alice"}

\* What each adapter may resolve with.  An absent optional string is "".
XProfiles ==
    { [displayName |-> "Alice", bio |-> "", followers |-> 10, website |-> "alice.dev"],
      [displayName |-> "", bio |-> "dev", followers |-> 3, website |-> ""],
      [displayName |-> "", bio |-> "", followers |-> 0, website |-> "alice.dev"] }

GitHubResults ==
    { [ codeResults |-> <<"hit">>,
        userProfile |-> [displayName |-> "Alice A", email |-> "alice@gh.io"],
        extractedEmails |-> <<"alice@gh.io", "Alice@X.io">>,
        relatedUsers |-> <<"alice", "bob">> ] }

PasteResults ==
    { [ results |-> <<[site |-> "pastebin"], [site |-> "ghostbin"], [site |-> "pastebin"]>>,
        extractedData |-> [emails |-> <<"alice@gh.io", "al@p.io", "alice@x.io">>,
                           urls |-> <<"paste.io/1", "alice.dev">>] ],
      [ results |-> <<>>, extractedData |-> Null ] }

RedditResults ==
    { [ profile |-> [karma |-> [total |-> 7]],
        subreddits |-> <<[sub |-> "crypto", n |-> 1], [sub |-> "defi", n |-> 4]>>,
        crossReferences |-> <<[url |-> "t.me/alice"], [url |-> "paste.io/1"]>> ] }

PlatformResults ==
    { [ foundProfiles |-> <<[platform |-> "GitHub"], [platform |-> "Reddit"]>> ] }

AdapterValues(a) ==
    CASE a = "x" -> XProfiles
      [] a = "github" -> GitHubResults
      [] a = "pastes" -> PasteResults
      [] a = "reddit" -> RedditResults
      [] a = "platforms" -> PlatformResults

\* adapter(...).catch(e => { logger.warn(...); return null; })
SettleCaught == [status |-> "fulfilled", value |-> Null]
SettleValue(v) == [status |-> "fulfilled", value |-> v]

\* What crawlWebsite may return (it catches its own exceptions)
WebsiteCrawlResults ==
    { [ url |-> "alice.dev", title |-> "Alice", emails |-> <<"hi@alice.dev", "alice@gh.io">>,
        socialLinks |-> <<[platform |-> "GitHub", url |-> "https://github.com/alice",
                           username |-> "alice"],
                          [platform |-> "Telegram", url |-> "https://t.me/al_ice",
                           username |-> "al_ice"]>>,
        externalLinks |-> <<"https://blog.io">>, phoneNumbers |-> <<"555-0100">>,
        names |-> <<>> ],
      [ url |-> "alice.dev", title |-> "", emails |-> <<>>, socialLinks |-> <<>>,
        externalLinks |-> <<>>, phoneNumbers |-> <<>>, names |-> <<>> ] }

\* const result: MasterReconResult = {...} (x.searchUrls and executionTimeMs
\* are not modelled; an absent optional field is "" or -1)
InitialReconResult(cleanUsername) ==
    [ username |-> cleanUsername,
      x |-> [found |-> FALSE, displayName |-> "", bio |-> "", followers |-> -1,
             website |-> "", profileUrl |-> cleanUsername],
      websiteCrawl |-> Null,
      github |-> [found |-> FALSE, codeCount |-> 0, profile |-> Null,
                  extractedEmails |-> <<>>, relatedUsers |-> <<>>],
      pastes |-> [found |-> FALSE, count |-> 0, extractedEmails |-> <<>>, sites |-> <<>>],
      reddit |-> [found |-> FALSE, karma |-> -1, topSubreddits |-> <<>>,
                  crossPlatformLinks |-> <<>>],
      platforms |-> [found |-> <<>>, total |-> 0],
      aggregated |-> [allEmails |-> <<>>, allUsernames |-> <<cleanUsername>>,
                      allUrls |-> <<>>, allPhones |-> <<>>, allWallets |-> <<>>],
      deepCrawl |-> Null, scamScore |-> 0, redFlags |-> <<>>,
      trustIndicators |-> <<>>, errors |-> <<>> ]

ReconIdle ==
    /\ reconUsername = "alice"
    /\ shouldDeepCrawl = FALSE
    /\ reconPc = "idle"
    /\ settled = [a \in Range(Adapters) |-> Pending]
    /\ websiteUrl = ""
    /\ reconResult = InitialReconResult("alice")
    /\ threw = {}

CrawlIdle ==
    /\ target = "alice"
    /\ initialEmails = <<>>
    /\ initialUsernames = <<>>
    /\ pc = "idle"
    /\ dorkIdx = 1
    /\ urlQueue = <<>>
    /\ qIdx = 1
    /\ visitedUrls = {}
    /\ elapsed = 0
    /\ result = InitialResult("alice", <<>>, <<>>)
    /\ fetchLog = <<>>
    /\ lastOp = "none"
    /\ steps = 0
    /\ discovered = <<>>
    /\ allFresh = TRUE

ScoreIdle ==
    /\ scoreMentions = <<>>
    /\ scoreTrust = <<>>
    /\ scoreOut = 0
    /\ scoreGiven = 0

DorksIdle ==
    /\ dorkUsername = "alice"
    /\ dorkEmails = <<>>
    /\ dorkOut = <<>>

MergeIdle ==
    /\ mergeInputs = Null
    /\ mergeLog = <<>>
    /\ mergeResult = InitialReconResult("alice")
    /\ mergeOnce = InitialReconResult("alice")
    /\ mergePc = "idle"

\* no browser, and nobody calling
NoBrowser == 0
Callers == 1..3

BrowserIdle ==
    /\ browserInstance = NoBrowser
    /\ callerPc = [c \in Callers |-> "idle"]
    /\ callerLaunch = [c \in Callers |-> NoBrowser]
    /\ callerGot = [c \in Callers |-> NoBrowser]
    /\ launches = 0
    /\ connected = {}
    /\ closing = NoBrowser
    /\ disturbed = FALSE

Users == {"u1", "u2"}

\* the limit of the runs in which the rate limiter is not exercised
IdleMaxRequests == 2

RateStart ==
    /\ now = 0
    /\ discordRateLimiter = [u \in Users |-> Null]
    /\ interactions = 0
    /\ verdict = [seq |-> 0, user |-> "u1", allowed |-> TRUE, retryAfter |-> 0]
    /\ allowedAt = [u \in Users |-> <<>>]
    /\ executed = [u \in Users |-> 0]
    /\ lastDenied = [u \in Users |-> Null]

RateIdle == RateStart /\ configMaxRequests = IdleMaxRequests

Slots == 1..2

CacheTypes == {"x_profile", "email", "username"}

\* the identifiers of the model in lower case
LowerIdentifiers == { <<"a", "b">>, <<"a", "@", "b", ".", "i", "o">> }

\* `osint:${type}:${identifier.toLowerCase()}` for lower-case identifiers
CacheKeys == { <<"osint", t, i>> : t \in CacheTypes, i \in LowerIdentifiers }

CacheIdle ==
    /\ connected_ = FALSE
    /\ redisStore = [k \in CacheKeys |-> Null]
    /\ reqPc = [s \in Slots |-> "idle"]
    /\ req = [s \in Slots |-> Null]
    /\ response = [s \in Slots |-> Null]
    /\ received = 0

\* the module-level regular expressions with the g flag: two of
\* SOCIAL_PATTERNS and EMAIL_PATTERN of the reconnaissance module,
\* PATTERNS.email and PATTERNS.github of extractPII, EMAIL_PATTERN of the
\* deep crawler
SocialPatternIds == <<"SOCIAL_PATTERNS.Twitter/X", "SOCIAL_PATTERNS.GitHub">>
GlobalRegexIds ==
    Range(SocialPatternIds)
        \cup {"recon.EMAIL_PATTERN", "PATTERNS.email", "PATTERNS.github",
              "crawler.EMAIL_PATTERN"}

RegexIdle ==
    /\ lastIndex = [id \in GlobalRegexIds |-> 0]
    /\ document = <<>>
    /\ lastCall = Null

TimeIdle ==
    /\ tPc = "dorks"
    /\ clock = 0
    /\ tDork = 1
    /\ tQueued = 0
    /\ tCrawled = 0
    /\ iterKind = "none"
    /\ iterStart = 0

LibIdle == BrowserIdle /\ RateIdle /\ CacheIdle /\ RegexIdle /\ TimeIdle

CrawlInit ==
    /\ target \in Targets
    /\ \E seeds \in SeedLists :
          /\ initialEmails = seeds.emails
          /\ initialUsernames = seeds.usernames
    /\ pc = "setup"
    /\ dorkIdx = 1
    /\ urlQueue = <<>>
    /\ qIdx = 1
    /\ visitedUrls = {}
    /\ elapsed = 0
    /\ result = InitialResult(target, initialEmails, initialUsernames)
    /\ fetchLog = <<>>
    /\ lastOp = "none"
    /\ steps = 0
    /\ discovered = <<>>
    /\ allFresh = TRUE

Init == CrawlInit /\ ScoreIdle /\ ReconIdle /\ DorksIdle /\ MergeIdle /\ LibIdle

inputVars == <<target, initialEmails, initialUsernames>>
searchHistory == <<discovered, allFresh>>

\* const browserInstance = await getBrowser(); const page = await browserInstance.newPage();
SetupOk ==
    /\ pc = "setup"
    /\ pc' = "headers"
    /\ lastOp' = "setup"
    /\ steps' = steps + 1
    /\ UNCHANGED <<inputVars, dorkIdx, urlQueue, qIdx, visitedUrls, elapsed,
                   result, fetchLog, searchHistory, scoreVars, reconVars, dorkVars, mergeVars, libVars>>

SetupFails ==
    /\ pc = "setup"
    /\ pc' = SetupFailureOutcome(result).pc
    /\ result' = SetupFailureOutcome(result).result
    /\ lastOp' = "setup_failed"
    /\ steps' = steps + 1
    /\ UNCHANGED <<inputVars, dorkIdx, urlQueue, qIdx, visitedUrls, elapsed,
                   fetchLog, searchHistory, scoreVars, reconVars, dorkVars, mergeVars, libVars>>

\* await page.setExtraHTTPHeaders(...)
HeadersOk ==
    /\ pc = "headers"
    /\ pc' = "dorks"
    /\ lastOp' = "headers"
    /\ steps' = steps + 1
    /\ UNCHANGED <<inputVars, dorkIdx, urlQueue, qIdx, visitedUrls, elapsed,
                   result, fetchLog, searchHistory, scoreVars, reconVars, dorkVars, mergeVars, libVars>>

\* catch (error) { result.errors.push(...) }
Catch(res) == [res EXCEPT !.errors = Append(@, "error")]

\* result.executionTimeMs = Date.now() - startTime; return result
Return(res, e) == [res EXCEPT !.executionTimeMs = e]

HeadersThrow ==
    /\ pc = "headers"
    /\ pc' = "closing"
    /\ result' = Catch(result)
    /\ lastOp' = "headers_failed"
    /\ steps' = steps + 1
    /\ UNCHANGED <<inputVars, dorkIdx, urlQueue, qIdx, visitedUrls, elapsed,
                   fetchLog, searchHistory, scoreVars, reconVars, dorkVars, mergeVars, libVars>>

\* for (const dork of dorks): the list is exhausted
DorksDone ==
    /\ pc = "dorks"
    /\ dorkIdx > Len(dorks)
    /\ pc' = "crawl"
    /\ lastOp' = "dorks_done"
    /\ steps' = steps + 1
    /\ UNCHANGED <<inputVars, dorkIdx, urlQueue, qIdx, visitedUrls, elapsed,
                   result, fetchLog, searchHistory, scoreVars, reconVars, dorkVars, mergeVars, libVars>>

\* if (Date.now() - startTime > MAX_EXECUTION_TIME_MS) break
DorksTimeBreak ==
    /\ pc = "dorks"
    /\ dorkIdx <= Len(dorks)
    /\ TimeLimitReached(elapsed)
    /\ pc' = "crawl"
    /\ lastOp' = "dorks_time_break"
    /\ steps' = steps + 1
    /\ UNCHANGED <<inputVars, dorkIdx, urlQueue, qIdx, visitedUrls, elapsed,
                   result, fetchLog, searchHistory, scoreVars, reconVars, dorkVars, mergeVars, libVars>>

IsFresh(urls, seen) ==
    /\ NoDuplicates(urls)
    /\ Range(urls) \cap Range(seen) = {}

\* one iteration of the dork loop that passes the time check
ExecuteDork(answer, d) ==
    /\ pc = "dorks"
    /\ dorkIdx <= Len(dorks)
    /\ ~TimeLimitReached(elapsed)
    /\ LET r == executeSearch(answer)
       IN  /\ IF r.thrown
              THEN /\ pc' = "closing"
                   /\ result' = Catch(result)
                   /\ UNCHANGED <<dorkIdx, urlQueue>>
              ELSE /\ pc' = "dorks"
                   /\ urlQueue' = Enqueue(urlQueue, visitedUrls, r.urls)
                   /\ dorkIdx' = dorkIdx + 1
                   /\ UNCHANGED result
           /\ IF allFresh /\ IsFresh(r.urls, discovered)
              THEN /\ discovered' = discovered \o r.urls
                   /\ UNCHANGED allFresh
              ELSE /\ discovered' = <<>>
                   /\ allFresh' = FALSE
    /\ elapsed' = elapsed + d
    /\ lastOp' = IF answer.failed THEN "search_failed" ELSE "search"
    /\ steps' = steps + 1
    /\ UNCHANGED <<inputVars, qIdx, visitedUrls, fetchLog, scoreVars, reconVars, dorkVars, mergeVars, libVars>>

\* for (const url of urlQueue): the queue is exhausted
CrawlDone ==
    /\ pc = "crawl"
    /\ qIdx > Len(urlQueue)
    /\ pc' = "finish"
    /\ lastOp' = "crawl_done"
    /\ steps' = steps + 1
    /\ UNCHANGED <<inputVars, dorkIdx, urlQueue, qIdx, visitedUrls, elapsed,
                   result, fetchLog, searchHistory, scoreVars, reconVars, dorkVars, mergeVars, libVars>>

\* A skip that does not move on to the next URL of the queue.
CrawlSkipStuck ==
    /\ pc = "crawl"
    /\ qIdx <= Len(urlQueue)
    /\ AlreadyVisited(visitedUrls, urlQueue[qIdx])
    /\ lastOp' = "skip"
    /\ steps' = steps + 1
    /\ UNCHANGED <<inputVars, pc, dorkIdx, urlQueue, qIdx, visitedUrls, elapsed,
                   result, fetchLog, searchHistory, scoreVars, reconVars, dorkVars, mergeVars, libVars>>

\* if (visitedUrls.has(url)) continue
CrawlSkip ==
    /\ pc = "crawl"
    /\ qIdx <= Len(urlQueue)
    /\ AlreadyVisited(visitedUrls, urlQueue[qIdx])
    /\ qIdx' = qIdx + 1
    /\ lastOp' = "skip"
    /\ steps' = steps + 1
    /\ UNCHANGED <<inputVars, pc, dorkIdx, urlQueue, visitedUrls, elapsed,
                   result, fetchLog, searchHistory, scoreVars, reconVars, dorkVars, mergeVars, libVars>>

\* A break of the crawl loop that is handled like an exception.
CrawlBreakAsError ==
    /\ pc = "crawl"
    /\ qIdx <= Len(urlQueue)
    /\ ~AlreadyVisited(visitedUrls, urlQueue[qIdx])
    /\ (TimeLimitReached(elapsed) \/ PageCeilingReached(result.pagesAnalyzed))
    /\ pc' = "closing"
    /\ result' = Catch(result)
    /\ lastOp' = IF TimeLimitReached(elapsed) THEN "crawl_time_break"
                 ELSE "crawl_pages_break"
    /\ steps' = steps + 1
    /\ UNCHANGED <<inputVars, dorkIdx, urlQueue, qIdx, visitedUrls, elapsed,
                   fetchLog, searchHistory, scoreVars, reconVars, dorkVars, mergeVars, libVars>>

\* if (time limit) break; if (result.pagesAnalyzed >= MAX_TOTAL_PAGES) break
CrawlBreak ==
    /\ pc = "crawl"
    /\ qIdx <= Len(urlQueue)
    /\ ~AlreadyVisited(visitedUrls, urlQueue[qIdx])
    /\ (TimeLimitReached(elapsed) \/ PageCeilingReached(result.pagesAnalyzed))
    /\ pc' = "finish"
    /\ lastOp' = IF TimeLimitReached(elapsed) THEN "crawl_time_break"
                 ELSE "crawl_pages_break"
    /\ steps' = steps + 1
    /\ UNCHANGED <<inputVars, dorkIdx, urlQueue, qIdx, visitedUrls, elapsed,
                   result, fetchLog, searchHistory, scoreVars, reconVars, dorkVars, mergeVars, libVars>>

\* one iteration of the crawl loop that passes the three checks
PassesChecks ==
    /\ pc = "crawl"
    /\ qIdx <= Len(urlQueue)
    /\ ~AlreadyVisited(visitedUrls, urlQueue[qIdx])
    /\ ~TimeLimitReached(elapsed)
    /\ ~PageCeilingReached(result.pagesAnalyzed)

CrawlVisit(answer, d) ==
    /\ PassesChecks
    /\ LET url == urlQueue[qIdx]
       IN  /\ visitedUrls' = visitedUrls \cup {url}
           /\ fetchLog' = Append(fetchLog, url)
           /\ result' = Aggregate(result, crawlPage(url, answer))
    /\ qIdx' = qIdx + 1
    /\ elapsed' = elapsed + d
    /\ lastOp' = IF answer.throwsAt = "none" THEN "fetch" ELSE "fetch_failed"
    /\ steps' = steps + 1
    /\ UNCHANGED <<inputVars, pc, dorkIdx, urlQueue, searchHistory, scoreVars, reconVars, dorkVars, mergeVars, libVars>>

\* lines 372-401: the tail of the try block
Finish ==
    /\ pc = "finish"
    /\ pc' = "closing"
    /\ result' = Finalize(result)
    /\ lastOp' = "finish"
    /\ steps' = steps + 1
    /\ UNCHANGED <<inputVars, dorkIdx, urlQueue, qIdx, visitedUrls, elapsed,
                   fetchLog, searchHistory, scoreVars, reconVars, dorkVars, mergeVars, libVars>>

\* finally { await page.close() } succeeds; lines 410-413
CloseOk ==
    /\ pc = "closing"
    /\ pc' = "returned"
    /\ result' = Return(result, elapsed)
    /\ steps' = steps + 1
    /\ UNCHANGED <<inputVars, dorkIdx, urlQueue, qIdx, visitedUrls, elapsed,
                   fetchLog, lastOp, searchHistory, scoreVars, reconVars, dorkVars, mergeVars, libVars>>

\* page.close() throws in the finally block: the promise is rejected
CloseThrows ==
    /\ pc = "closing"
    /\ pc' = "rejected"
    /\ lastOp' = "close_failed"
    /\ steps' = steps + 1
    /\ UNCHANGED <<inputVars, dorkIdx, urlQueue, qIdx, visitedUrls, elapsed,
                   result, fetchLog, searchHistory, scoreVars, reconVars, dorkVars, mergeVars, libVars>>

Next ==
    \/ SetupOk
    \/ SetupFails
    \/ HeadersOk
    \/ HeadersThrow
    \/ DorksDone
    \/ DorksTimeBreak
    \/ \E answer \in SearchAnswers, d \in SearchDurations : ExecuteDork(answer, d)
    \/ CrawlDone
    \/ CrawlSkip
    \/ CrawlBreak
    \/ \E answer \in PageAnswers, d \in FetchDurations : CrawlVisit(answer, d)
    \/ Finish
    \/ CloseOk
    \/ CloseThrows

Spec == Init /\ [][Next]_vars

(***************************************************************************)
(* Properties of deepCrawl                                                 *)
(***************************************************************************)
PageUrls(pages) == [i \in 1..Len(pages) |-> pages[i].url]
LastPage == result.crawledPages[Len(result.crawledPages)]
Terminated == pc \in {"returned", "rejected"}

\* a step in which a search is executed or a page is fetched
IterationRuns == dorkIdx' = dorkIdx + 1 \/ Len(fetchLog') = Len(fetchLog) + 1

\* C1: in every state of a run, and in the result returned, pagesAnalyzed is
\* at most MAX_TOTAL_PAGES (and so is the number of pages recorded).
C1_PageBudget ==
    /\ result.pagesAnalyzed <= MAX_TOTAL_PAGES
    /\ Len(result.crawledPages) <= MAX_TOTAL_PAGES

\* a run that returned with the budget used up although the searches had
\* returned more never-seen URLs than the budget allows
C1_Witness ==
    /\ pc = "returned"
    /\ result.pagesAnalyzed = MAX_TOTAL_PAGES
    /\ allFresh
    /\ Len(discovered) > MAX_TOTAL_PAGES

\* C2: no two crawled pages have the same url, and crawlPage is invoked at
\* most once per URL.
C2_VisitedOnce ==
    /\ NoDuplicates(fetchLog)
    /\ NoDuplicates(PageUrls(result.crawledPages))
    /\ PageUrls(result.crawledPages) = fetchLog

\* a finished run whose queue held the same URL twice
C2_Witness ==
    /\ pc = "returned"
    /\ ~NoDuplicates(urlQueue)
    /\ qIdx > Len(urlQueue)
    /\ Len(fetchLog) >= 1

\* the most steps a run can take: setup, headers, one per dork and the exit
\* of the dork loop, one per queued URL and the exit of the crawl loop, the
\* tail of the try block, and the closing of the page
MaxSteps == 2 + (Len(dorks) + 1) + (MAX_TOTAL_PAGES + 1) + 2

\* the steps of the setup and of the two loops other than a page visit
ControlStep ==
    \/ SetupOk \/ SetupFails \/ HeadersOk \/ HeadersThrow
    \/ DorksDone \/ DorksTimeBreak
    \/ \E answer \in SearchAnswers, d \in SearchDurations : ExecuteDork(answer, d)
    \/ CrawlDone \/ CrawlSkip \/ CrawlBreak
    \/ CloseOk \/ CloseThrows

\* a step is possible: a control step, a page visit (possible whenever the
\* three checks pass), or the tail of the try block (possible whenever it is
\* reached)
CanStep == PassesChecks \/ pc = "finish" \/ ENABLED ControlStep

\* C3: deepCrawl always terminates, whatever the searches and fetches
\* answer: no run takes more than MaxSteps steps, the queue never grows
\* beyond MAX_TOTAL_PAGES, a step is possible until the promise is settled,
\* and the promise is settled by returning a result unless allocating or
\* closing the page failed.
C3_Terminates ==
    /\ steps <= MaxSteps
    /\ Len(urlQueue) <= MAX_TOTAL_PAGES
    /\ Terminated \/ CanStep
    /\ pc = "rejected" => lastOp \in {"setup_failed", "close_failed"}

\* a run that went through every dork and a full queue and returned
C3_Witness ==
    /\ pc = "returned"
    /\ dorkIdx > Len(dorks)
    /\ Len(fetchLog) = MAX_TOTAL_PAGES

\* C4 as claimed: no search is executed and no page is fetched in an iteration
\* that begins at elapsed >= MAX_EXECUTION_TIME_MS or at
\* pagesAnalyzed >= MAX_TOTAL_PAGES.
C4_AsClaimed ==
    [][IterationRuns =>
         /\ elapsed < MAX_EXECUTION_TIME_MS
         /\ result.pagesAnalyzed < MAX_TOTAL_PAGES]_vars

\* C4 amended: no search is executed and no page is fetched in an iteration
\* that begins at elapsed > MAX_EXECUTION_TIME_MS or (for a page) at
\* pagesAnalyzed >= MAX_TOTAL_PAGES; such an iteration leaves its loop.
C4_BudgetChecks ==
    /\ [][IterationRuns =>
            /\ elapsed <= MAX_EXECUTION_TIME_MS
            /\ result.pagesAnalyzed < MAX_TOTAL_PAGES]_vars
    /\ [][(pc = "dorks" /\ dorkIdx <= Len(dorks)
            /\ elapsed > MAX_EXECUTION_TIME_MS)
           => (pc' = "crawl" /\ urlQueue' = urlQueue)]_vars
    /\ [][(pc = "crawl" /\ qIdx <= Len(urlQueue)
            /\ urlQueue[qIdx] \notin visitedUrls
            /\ (elapsed > MAX_EXECUTION_TIME_MS
                \/ result.pagesAnalyzed >= MAX_TOTAL_PAGES))
           => (pc' = "finish" /\ fetchLog' = fetchLog)]_vars

\* the crawl loop left by the time check with a URL still unfetched
C4_Witness ==
    /\ pc = "finish"
    /\ lastOp = "crawl_time_break"
    /\ qIdx <= Len(urlQueue)
    /\ urlQueue[qIdx] \notin visitedUrls

\* C5: when every URL the searches returned was new, the deadline did not
\* expire and nothing threw, the pages fetched are exactly the first
\* MAX_TOTAL_PAGES URLs discovered (all of them when fewer were discovered).
C5_ExactBudget ==
    (/\ pc = "returned"
     /\ result.errors = <<>>
     /\ allFresh
     /\ elapsed <= MAX_EXECUTION_TIME_MS)
    => /\ fetchLog = Take(discovered, MAX_TOTAL_PAGES)
       /\ PageUrls(result.crawledPages) = fetchLog
       /\ result.pagesAnalyzed = Min(Len(discovered), MAX_TOTAL_PAGES)

\* such a run in which more URLs were discovered than the ceiling allows
C5_Witness ==
    /\ pc = "returned"
    /\ result.errors = <<>>
    /\ allFresh
    /\ elapsed <= MAX_EXECUTION_TIME_MS
    /\ Len(discovered) > MAX_TOTAL_PAGES
    /\ result.pagesAnalyzed = MAX_TOTAL_PAGES

LeadsEmpty(page) ==
    /\ page.emails = <<>>
    /\ page.usernames = <<>>
    /\ page.wallets = <<>>
    /\ page.scamMentions = <<>>

MaxMentions == 3
MaxTrust == 2

\* keywords of the mentions drawn: keys of the table, a key that includes
\* another key, a scam keyword that no key matches, and the fallback keyword
ScoreKeywords ==
    {KwExitScam, KwScam, KwScammer, KwWarning, KwRugPull, KwFakeProject, KwUnknown}

\* the trust indicators deepCrawl produces
TrustIndicators == {"social_presence", "no_scam_mentions"}

\* a scam mention as deepCrawl pushes it
Mention(keyword) == [keyword |-> keyword, context |-> keyword, url |-> 1]

\* the mention lists a run starts from: none, or four 'rug pull' mentions,
\* whose points add up to the upper end of the score range
GivenMentions == {<<>>, [i \in 1..4 |-> Mention(KwRugPull)]}

ScoreInit ==
    /\ scoreMentions \in GivenMentions
    /\ scoreGiven = Len(scoreMentions)
    /\ scoreTrust = <<>>
    /\ scoreOut = calculateScamScore(scoreMentions, scoreTrust)

\* the scorer applied to the list extended by one mention
ScoreMention(keyword) ==
    /\ Len(scoreMentions) < scoreGiven + MaxMentions
    /\ scoreMentions' = Append(scoreMentions, Mention(keyword))
    /\ scoreOut' = calculateScamScore(scoreMentions', scoreTrust)
    /\ UNCHANGED <<scoreTrust, scoreGiven, crawlVars, reconVars, dorkVars, mergeVars, libVars>>

\* the scorer applied with one more trust indicator
ScoreTrust(indicator) ==
    /\ Len(scoreTrust) < MaxTrust
    /\ scoreTrust' = Append(scoreTrust, indicator)
    /\ scoreOut' = calculateScamScore(scoreMentions, scoreTrust')
    /\ UNCHANGED <<scoreMentions, scoreGiven, crawlVars, reconVars, dorkVars, mergeVars, libVars>>

NextScore ==
    \/ \E keyword \in ScoreKeywords : ScoreMention(keyword)
    \/ \E indicator \in TrustIndicators : ScoreTrust(indicator)

InitScore == CrawlIdle /\ ScoreInit /\ ReconIdle /\ DorksIdle /\ MergeIdle /\ LibIdle

SpecScore == InitScore /\ [][NextScore]_vars

\* the score of a single mention with this keyword and no trust indicator
PointsOf(keyword) == calculateScamScore(<<Mention(keyword)>>, <<>>)

\* C10: a single mention with keyword 'exit scam' scores strictly more than
\* one with 'scam', which scores strictly more than one with 'warning', and
\* a mention with keyword 'scammer' scores the table's value for 'scammer',
\* not the value for 'scam'.
C10_SeverityOrdering ==
    (Len(scoreMentions) = 1 /\ scoreTrust = <<>>) =>
        LET keyword == scoreMentions[1].keyword
        IN  /\ keyword = KwExitScam => scoreOut > PointsOf(KwScam)
            /\ keyword = KwScam => scoreOut > PointsOf(KwWarning)
            /\ keyword = KwScammer =>
                  (scoreOut = TableValue(KwScammer) /\ scoreOut # PointsOf(KwScam))

\* no key of the severity table is included in the keyword
Unlisted(keyword) ==
    \A i \in 1..Len(severityMap) : ~Includes(keyword, severityMap[i][1])

\* C11: a single mention whose keyword matches no entry of the severity
\* table scores a strictly positive amount, never zero.
C11_DefaultMinimum ==
    (Len(scoreMentions) = 1 /\ scoreTrust = <<>>
        /\ Unlisted(scoreMentions[1].keyword)) => scoreOut > 0

InTable(keyword) == \E i \in 1..Len(severityMap) : severityMap[i][1] = keyword

\* C13: appending one mention whose keyword is in the severity table never
\* lowers the score, and appending one trust indicator never raises it.
C13_Monotonic ==
    /\ [][(Len(scoreMentions') = Len(scoreMentions) + 1
            /\ InTable(scoreMentions'[Len(scoreMentions')].keyword))
           => scoreOut' >= scoreOut]_vars
    /\ [][Len(scoreTrust') = Len(scoreTrust) + 1 => scoreOut' <= scoreOut]_vars

\* a score strictly inside the range after mentions and trust indicators
\* were appended
C13_Witness ==
    /\ Len(scoreMentions) > scoreGiven
    /\ InTable(scoreMentions[Len(scoreMentions)].keyword)
    /\ Len(scoreTrust) > 0
    /\ scoreOut > 0
    /\ scoreOut < 100

(***************************************************************************)
(* generateCryptoScamDorks on drawn inputs                                 *)
(***************************************************************************)
\* the longest list of known emails
MaxEmails == 4

DorkUsernames == {"alice", "bob"}
KnownEmails == {"a@x.io", "b@x.io", "c@x.io", "d@x.io"}

\* generateCryptoScamDorks(username): emails defaults to []
DorksInit ==
    /\ dorkUsername \in DorkUsernames
    /\ dorkEmails = <<>>
    /\ dorkOut = generateCryptoScamDorks(dorkUsername, dorkEmails)

\* generateCryptoScamDorks applied to the list extended by one email
DorksEmail(email) ==
    /\ Len(dorkEmails) < MaxEmails
    /\ dorkEmails' = Append(dorkEmails, email)
    /\ dorkOut' = generateCryptoScamDorks(dorkUsername, dorkEmails')
    /\ UNCHANGED <<dorkUsername, crawlVars, scoreVars, reconVars, mergeVars, libVars>>

NextDorks == \E email \in KnownEmails : DorksEmail(email)

InitDorks == CrawlIdle /\ ScoreIdle /\ ReconIdle /\ DorksInit /\ MergeIdle /\ LibIdle

SpecDorks == InitDorks /\ [][NextDorks]_vars

\* the queries after the ten templates
EmailQueries == SubSeq(dorkOut, 11, Len(dorkOut))

\* C20 as stated: the ten template queries for the target come first, in
\* their fixed order, followed by at most 3 email queries in total.
C20_AsClaimed ==
    /\ SubSeq(dorkOut, 1, 10) = [i \in 1..10 |-> [tpl |-> i, subject |-> dorkUsername]]
    /\ Len(EmailQueries) <= 3

\* C20: the ten template queries for the target come first, in their fixed
\* order, followed by two queries for each of the first three known emails,
\* in the emails' order: 2 * min(number of emails, 3) queries, at most 6.
C20_EmailQueries ==
    LET n == Min(Len(dorkEmails), 3)
    IN  /\ SubSeq(dorkOut, 1, 10) =
              [i \in 1..10 |-> [tpl |-> i, subject |-> dorkUsername]]
        /\ Len(EmailQueries) = 2 * n
        /\ Len(EmailQueries) <= 6
        /\ \A k \in 1..n :
              /\ EmailQueries[2 * k - 1] = [tpl |-> 11, subject |-> dorkEmails[k]]
              /\ EmailQueries[2 * k] = [tpl |-> 12, subject |-> dorkEmails[k]]

C20_Witness ==
    /\ Len(dorkEmails) = 4
    /\ Len(EmailQueries) = 6

(***************************************************************************)
(* masterRecon                                                             *)
(***************************************************************************)
\* lines 299-314: the X result; yields the result and websiteUrl ("" = null)
ProcessX(res, xResult) ==
    IF xResult.status = "fulfilled" /\ xResult.value # Null
       /\ (xResult.value.displayName # "" \/ xResult.value.bio # "")
    THEN LET x == xResult.value
         IN  [ res |-> [res EXCEPT
                          !.x.found = TRUE,
                          !.x.displayName = x.displayName,
                          !.x.bio = x.bio,
                          !.x.followers = x.followers,
                          !.x.website = x.website,
                          !.aggregated.allUrls =
                              IF x.website # "" THEN Append(@, x.website) ELSE @],
               websiteUrl |-> x.website ]
    ELSE [res |-> res, websiteUrl |-> ""]

RECURSIVE SocialUsernames(_)
SocialUsernames(links) ==
    IF links = <<>> THEN <<>>
    ELSE (IF Head(links).username # "" THEN <<Head(links).username>> ELSE <<>>)
         \o SocialUsernames(Tail(links))

\* lines 325-338: the website crawl's leads are pushed onto the aggregation
ProcessWebsite(res, crawl) ==
    [res EXCEPT
        !.websiteCrawl = crawl,
        !.aggregated.allEmails = @ \o crawl.emails,
        !.aggregated.allPhones = @ \o crawl.phoneNumbers,
        !.aggregated.allUrls =
            @ \o crawl.externalLinks
              \o [i \in 1..Len(crawl.socialLinks) |-> crawl.socialLinks[i].url],
        !.aggregated.allUsernames = @ \o SocialUsernames(crawl.socialLinks)]

\* A GitHub block that assigns its leads instead of pushing them.
ProcessGitHubAssigns(res, githubResult) ==
    IF githubResult.status = "fulfilled" /\ githubResult.value # Null
    THEN LET gh == githubResult.value
         IN  [res EXCEPT
                !.github.codeCount = Len(gh.codeResults),
                !.github.found = Len(gh.codeResults) > 0 \/ gh.userProfile # Null,
                !.github.profile = IF gh.userProfile # Null THEN gh.userProfile ELSE @,
                !.github.extractedEmails = gh.extractedEmails,
                !.github.relatedUsers = gh.relatedUsers,
                !.aggregated.allEmails = gh.extractedEmails,
                !.aggregated.allUsernames = gh.relatedUsers]
    ELSE res

\* lines 347-368
ProcessGitHub(res, githubResult) ==
    IF githubResult.status = "fulfilled" /\ githubResult.value # Null
    THEN LET gh == githubResult.value
         IN  [res EXCEPT
                !.github.codeCount = Len(gh.codeResults),
                !.github.found = Len(gh.codeResults) > 0 \/ gh.userProfile # Null,
                !.github.profile = IF gh.userProfile # Null THEN gh.userProfile ELSE @,
                !.github.extractedEmails = gh.extractedEmails,
                !.github.relatedUsers = gh.relatedUsers,
                !.aggregated.allEmails = @ \o gh.extractedEmails,
                !.aggregated.allUsernames = @ \o gh.relatedUsers]
    ELSE res

\* lines 370-384
ProcessPastes(res, pasteResult) ==
    IF pasteResult.status = "fulfilled" /\ pasteResult.value # Null
    THEN LET p == pasteResult.value
             data == p.extractedData
         IN  [res EXCEPT
                !.pastes.count = Len(p.results),
                !.pastes.found = Len(p.results) > 0,
                !.pastes.sites = Dedup([i \in 1..Len(p.results) |-> p.results[i].site]),
                !.pastes.extractedEmails = IF data # Null THEN data.emails ELSE @,
                !.aggregated.allEmails = IF data # Null THEN @ \o data.emails ELSE @,
                !.aggregated.allUrls = IF data # Null THEN @ \o data.urls ELSE @]
    ELSE res

\* entries.sort((a, b) => b[1] - a[1]): a stable sort, larger counts first
RECURSIVE SortByCount(_)
SortByCount(entries) ==
    IF entries = <<>> THEN <<>>
    ELSE LET sorted == SortByCount(SubSeq(entries, 1, Len(entries) - 1))
             e == entries[Len(entries)]
             k == Cardinality({i \in 1..Len(sorted) : sorted[i].n >= e.n})
         IN  SubSeq(sorted, 1, k) \o <<e>> \o SubSeq(sorted, k + 1, Len(sorted))

\* lines 386-404
ProcessReddit(res, redditResult) ==
    IF redditResult.status = "fulfilled" /\ redditResult.value # Null
       /\ redditResult.value.profile # Null
    THEN LET r == redditResult.value
             top == Take(SortByCount(r.subreddits), 5)
             links == [i \in 1..Len(r.crossReferences) |-> r.crossReferences[i].url]
         IN  [res EXCEPT
                !.reddit.found = TRUE,
                !.reddit.karma = r.profile.karma.total,
                !.reddit.topSubreddits = [i \in 1..Len(top) |-> top[i].sub],
                !.reddit.crossPlatformLinks = links,
                !.aggregated.allUrls = @ \o links]
    ELSE res

\* lines 406-411
ProcessPlatforms(res, platformResult) ==
    IF platformResult.status = "fulfilled" /\ platformResult.value # Null
    THEN LET p == platformResult.value
         IN  [res EXCEPT
                !.platforms.found =
                    [i \in 1..Len(p.foundProfiles) |-> p.foundProfiles[i].platform],
                !.platforms.total = Len(p.foundProfiles)]
    ELSE res

\* A deduplication that leaves allEmails and allUsernames as pushed.
DedupAggregatedUrlsOnly(res) ==
    [res EXCEPT
        !.aggregated.allUrls = Take(Dedup(@), 20),
        !.aggregated.allPhones = Dedup(@)]

\* lines 413-417
DedupAggregated(res) ==
    [res EXCEPT
        !.aggregated.allEmails = Dedup(@),
        !.aggregated.allUsernames = Dedup(@),
        !.aggregated.allUrls = Take(Dedup(@), 20),
        !.aggregated.allPhones = Dedup(@)]

\* lines 347-417: everything between the website crawl and the deep crawl
ProcessRest(res, s) ==
    DedupAggregated(
        ProcessPlatforms(
            ProcessReddit(
                ProcessPastes(ProcessGitHub(res, s["github"]), s["pastes"]),
                s["reddit"]),
            s["platforms"]))

\* lines 429-441
IntegrateDeepCrawl(res, deepResult) ==
    [res EXCEPT
        !.deepCrawl = deepResult,
        !.scamScore = deepResult.scamScore,
        !.redFlags = deepResult.redFlags,
        !.trustIndicators = deepResult.trustIndicators,
        !.aggregated.allEmails = Dedup(@ \o deepResult.allEmails),
        !.aggregated.allUsernames = Dedup(@ \o deepResult.allUsernames),
        !.aggregated.allWallets = deepResult.allWallets]

\* What deepCrawl(cleanUsername, allEmails, allUsernames) may return: the
\* result of a run that fetched no page or one page, or that caught an
\* exception in its try block.
DeepCrawlReturns(u, emails, usernames) ==
    LET start == InitialResult(u, emails, usernames)
    IN  {Return(Finalize(start), 0), Return(Catch(start), 0)}
        \cup {Return(Finalize(Aggregate(start, crawlPage(1, answer))), 0) :
                 answer \in PageAnswers}

\* masterRecon(username, options) up to the await of Promise.allSettled: the
\* five adapter calls are started
ReconInit ==
    /\ reconUsername \in Usernames
    /\ shouldDeepCrawl \in BOOLEAN
    /\ reconPc = "fanout"
    /\ settled = [a \in Range(Adapters) |-> Pending]
    /\ websiteUrl = ""
    /\ reconResult = InitialReconResult(CleanUsername(reconUsername))
    /\ threw = {}

reconInputs == <<reconUsername, shouldDeepCrawl>>

\* an adapter's promise resolves
AdapterResolves(a, v) ==
    /\ reconPc = "fanout"
    /\ settled[a] = Pending
    /\ settled' = [settled EXCEPT ![a] = SettleValue(v)]
    /\ UNCHANGED <<reconInputs, reconPc, websiteUrl, reconResult, threw,
                   crawlVars, scoreVars, dorkVars, mergeVars, libVars>>

\* an adapter throws: its .catch handler logs and resolves with null
AdapterThrows(a) ==
    /\ reconPc = "fanout"
    /\ settled[a] = Pending
    /\ settled' = [settled EXCEPT ![a] = SettleCaught]
    /\ threw' = threw \cup {a}
    /\ UNCHANGED <<reconInputs, reconPc, websiteUrl, reconResult,
                   crawlVars, scoreVars, dorkVars, mergeVars, libVars>>

\* the next await after the rest of the results is processed: deepCrawl, or none
AfterProcessing == IF shouldDeepCrawl THEN "deep" ELSE "resolved"

\* A join that resolves as soon as one adapter has settled.
JoinEarly ==
    /\ reconPc = "fanout"
    /\ \E a \in Range(Adapters) : settled[a] # Pending
    /\ LET r == ProcessX(reconResult, settled["x"])
       IN  /\ websiteUrl' = r.websiteUrl
           /\ IF r.websiteUrl # ""
              THEN /\ reconPc' = "website"
                   /\ reconResult' = r.res
              ELSE /\ reconPc' = AfterProcessing
                   /\ reconResult' = ProcessRest(r.res, settled)
    /\ UNCHANGED <<reconInputs, settled, threw, crawlVars, scoreVars, dorkVars, mergeVars, libVars>>

\* Promise.allSettled resolves; lines 299-317, and lines 347-420 when no
\* website is to be crawled
Join ==
    /\ reconPc = "fanout"
    /\ \A a \in Range(Adapters) : settled[a] # Pending
    /\ LET r == ProcessX(reconResult, settled["x"])
       IN  /\ websiteUrl' = r.websiteUrl
           /\ IF r.websiteUrl # ""
              THEN /\ reconPc' = "website"
                   /\ reconResult' = r.res
              ELSE /\ reconPc' = AfterProcessing
                   /\ reconResult' = ProcessRest(r.res, settled)
    /\ UNCHANGED <<reconInputs, settled, threw, crawlVars, scoreVars, dorkVars, mergeVars, libVars>>

\* lines 318-340 without an exception, then lines 347-420
WebsiteCrawled(crawl) ==
    /\ reconPc = "website"
    /\ reconResult' = ProcessRest(ProcessWebsite(reconResult, crawl), settled)
    /\ reconPc' = AfterProcessing
    /\ UNCHANGED <<reconInputs, settled, websiteUrl, threw, crawlVars, scoreVars, dorkVars, mergeVars, libVars>>

\* getBrowser, newPage or setExtraHTTPHeaders throws (lines 319-323, 341-344)
WebsiteSetupThrows ==
    /\ reconPc = "website"
    /\ reconResult' =
          ProcessRest([reconResult EXCEPT !.errors = Append(@, "Website crawl failed")],
                      settled)
    /\ reconPc' = AfterProcessing
    /\ UNCHANGED <<reconInputs, settled, websiteUrl, threw, crawlVars, scoreVars, dorkVars, mergeVars, libVars>>

\* page.close() throws after the leads were pushed (lines 340-344)
WebsiteCloseThrows(crawl) ==
    /\ reconPc = "website"
    /\ reconResult' =
          ProcessRest([ProcessWebsite(reconResult, crawl) EXCEPT
                          !.errors = Append(@, "Website crawl failed")],
                      settled)
    /\ reconPc' = AfterProcessing
    /\ UNCHANGED <<reconInputs, settled, websiteUrl, threw, crawlVars, scoreVars, dorkVars, mergeVars, libVars>>

\* await deepCrawl(...) returns (lines 423-441), and masterRecon returns
DeepCrawlResolves(deepResult) ==
    /\ reconPc = "deep"
    /\ reconResult' = IntegrateDeepCrawl(reconResult, deepResult)
    /\ reconPc' = "resolved"
    /\ UNCHANGED <<reconInputs, settled, websiteUrl, threw, crawlVars, scoreVars, dorkVars, mergeVars, libVars>>

\* await deepCrawl(...) rejects (lines 442-445), and masterRecon returns
DeepCrawlRejects ==
    /\ reconPc = "deep"
    /\ reconResult' = [reconResult EXCEPT !.errors = Append(@, "Deep crawl failed")]
    /\ reconPc' = "resolved"
    /\ UNCHANGED <<reconInputs, settled, websiteUrl, threw, crawlVars, scoreVars, dorkVars, mergeVars, libVars>>

NextRecon ==
    \/ \E a \in Range(Adapters) : \E v \in AdapterValues(a) : AdapterResolves(a, v)
    \/ \E a \in Range(Adapters) : AdapterThrows(a)
    \/ Join
    \/ \E crawl \in WebsiteCrawlResults : WebsiteCrawled(crawl)
    \/ WebsiteSetupThrows
    \/ \E crawl \in WebsiteCrawlResults : WebsiteCloseThrows(crawl)
    \/ \E deepResult \in DeepCrawlReturns(reconResult.username,
                                          reconResult.aggregated.allEmails,
                                          reconResult.aggregated.allUsernames) :
          DeepCrawlResolves(deepResult)
    \/ DeepCrawlRejects

InitRecon == CrawlIdle /\ ScoreIdle /\ ReconInit /\ DorksIdle /\ MergeIdle /\ LibIdle

SpecRecon == InitRecon /\ [][NextRecon]_vars

\* the data of a successful adapter, as masterRecon copies it into the result
HasAdapterData(res, a, v) ==
    CASE a = "x" ->
            (v.displayName # "" \/ v.bio # "") =>
                (/\ res.x.found
                 /\ res.x.displayName = v.displayName
                 /\ res.x.bio = v.bio
                 /\ res.x.website = v.website)
      [] a = "github" ->
            /\ res.github.found
            /\ res.github.extractedEmails = v.extractedEmails
            /\ res.github.relatedUsers = v.relatedUsers
            /\ Range(v.extractedEmails) \subseteq Range(res.aggregated.allEmails)
            /\ Range(v.relatedUsers) \subseteq Range(res.aggregated.allUsernames)
      [] a = "pastes" ->
            /\ res.pastes.count = Len(v.results)
            /\ v.extractedData # Null =>
                  (/\ res.pastes.extractedEmails = v.extractedData.emails
                   /\ Range(v.extractedData.urls) \subseteq Range(res.aggregated.allUrls))
      [] a = "reddit" ->
            /\ res.reddit.found
            /\ res.reddit.karma = v.profile.karma.total
            /\ Range(res.reddit.crossPlatformLinks) \subseteq Range(res.aggregated.allUrls)
      [] a = "platforms" ->
            res.platforms.total = Len(v.foundProfiles)

\* the entries of errors that the website crawl and the deep crawl did not push
AdapterErrors(res) ==
    {i \in 1..Len(res.errors) :
        res.errors[i] \notin {"Website crawl failed", "Deep crawl failed"}}

\* C9: when exactly one adapter threw, every other adapter settled with its
\* value, the returned result holds the data of each of them, and errors
\* holds exactly one entry for the adapter that threw.
C9_AdapterIsolation ==
    (reconPc = "resolved" /\ Cardinality(threw) = 1) =>
        /\ \A a \in Range(Adapters) \ threw :
              /\ settled[a].status = "fulfilled"
              /\ settled[a].value \in AdapterValues(a)
              /\ HasAdapterData(reconResult, a, settled[a].value)
        /\ Cardinality(AdapterErrors(reconResult)) = 1

(***************************************************************************)
(* The merge of masterRecon on drawn contributions.  A contribution is one *)
(* of the blocks of lines 299-441 that push leads onto result.aggregated;  *)
(* the blocks are applied in any order, a block possibly twice in a row,   *)
(* and the deduplication of lines 413-417 closes the merge.  The platform  *)
(* block pushes nothing onto result.aggregated and is left out.            *)
(***************************************************************************)
\* the blocks in the order of the code
CodeOrder == <<"x", "website", "github", "pastes", "reddit", "deep">>

\* a paste search that extracted twenty URLs
ManyUrlsPaste ==
    [ results |-> <<[site |-> "pastebin"]>>,
      extractedData |->
          [emails |-> <<"al@p.io">>,
           urls |-> <<"p.io/01", "p.io/02", "p.io/03", "p.io/04", "p.io/05",
                      "p.io/06", "p.io/07", "p.io/08", "p.io/09", "p.io/10",
                      "p.io/11", "p.io/12", "p.io/13", "p.io/14", "p.io/15",
                      "p.io/16", "p.io/17", "p.io/18", "p.io/19", "p.io/20">>] ]

\* what the adapters and the website crawl returned
MergeBases ==
    [ x : {SettleValue(v) : v \in {p \in XProfiles : p.displayName # ""}},
      website : {c \in WebsiteCrawlResults : c.emails # <<>>},
      github : {SettleValue(v) : v \in GitHubResults},
      pastes : {SettleValue(v) :
                   v \in {p \in PasteResults : p.extractedData # Null}
                         \cup {ManyUrlsPaste}},
      reddit : {SettleValue(v) : v \in RedditResults} ]

\* lines 299-404 in the order of the code, without the deduplication
PushedBeforeDeep(base) ==
    ProcessReddit(
        ProcessPastes(
            ProcessGitHub(
                ProcessWebsite(ProcessX(InitialReconResult("alice"), base.x).res,
                               base.website),
                base.github),
            base.pastes),
        base.reddit)

\* lines 299-417 in the order of the code
MergeBeforeDeep(base) == DedupAggregated(PushedBeforeDeep(base))

\* what deepCrawl may return when seeded as the code seeds it, or null when
\* options.deepCrawl is off
DeepContributions(base) ==
    LET seeds == MergeBeforeDeep(base).aggregated
    IN  {Null} \cup DeepCrawlReturns("alice", seeds.allEmails, seeds.allUsernames)

\* one block applied to the result
ApplyBlock(res, b, inputs) ==
    CASE b = "x" -> ProcessX(res, inputs.x).res
      [] b = "website" -> ProcessWebsite(res, inputs.website)
      [] b = "github" -> ProcessGitHub(res, inputs.github)
      [] b = "pastes" -> ProcessPastes(res, inputs.pastes)
      [] b = "reddit" -> ProcessReddit(res, inputs.reddit)
      [] b = "deep" -> IF inputs.deep # Null
                       THEN IntegrateDeepCrawl(res, inputs.deep) ELSE res

\* lines 299-441 as masterRecon runs them
CodeMerge(inputs) ==
    IF inputs.deep # Null
    THEN IntegrateDeepCrawl(MergeBeforeDeep(inputs), inputs.deep)
    ELSE MergeBeforeDeep(inputs)

MergeInit ==
    /\ \E base \in MergeBases : \E deep \in DeepContributions(base) :
          mergeInputs = [x |-> base.x, website |-> base.website,
                         github |-> base.github, pastes |-> base.pastes,
                         reddit |-> base.reddit, deep |-> deep]
    /\ mergeLog = <<>>
    /\ mergeResult = InitialReconResult("alice")
    /\ mergeOnce = InitialReconResult("alice")
    /\ mergePc = "merging"

\* a block that was not merged yet is merged
MergeBlock(b) ==
    /\ mergePc = "merging"
    /\ b \notin Range(mergeLog)
    /\ mergeResult' = ApplyBlock(mergeResult, b, mergeInputs)
    /\ mergeOnce' = ApplyBlock(mergeOnce, b, mergeInputs)
    /\ mergeLog' = Append(mergeLog, b)
    /\ UNCHANGED <<mergeInputs, mergePc, crawlVars, scoreVars, reconVars, dorkVars, libVars>>

\* the block merged last is merged once more (once in a merge)
MergeAgain ==
    /\ mergePc = "merging"
    /\ mergeLog # <<>>
    /\ NoDuplicates(mergeLog)
    /\ mergeResult' = ApplyBlock(mergeResult, mergeLog[Len(mergeLog)], mergeInputs)
    /\ mergeLog' = Append(mergeLog, mergeLog[Len(mergeLog)])
    /\ UNCHANGED <<mergeInputs, mergeOnce, mergePc, crawlVars, scoreVars, reconVars, dorkVars, libVars>>

\* every block was merged: the deduplication closes the merge
MergeFinish ==
    /\ mergePc = "merging"
    /\ Range(mergeLog) = Range(CodeOrder)
    /\ mergeResult' = DedupAggregated(mergeResult)
    /\ mergeOnce' = DedupAggregated(mergeOnce)
    /\ mergePc' = "merged"
    /\ UNCHANGED <<mergeInputs, mergeLog, crawlVars, scoreVars, reconVars, dorkVars, libVars>>

NextMerge ==
    \/ \E b \in Range(CodeOrder) : MergeBlock(b)
    \/ MergeAgain
    \/ MergeFinish

InitMerge == CrawlIdle /\ ScoreIdle /\ ReconIdle /\ DorksIdle /\ MergeInit /\ LibIdle

SpecMerge == InitMerge /\ [][NextMerge]_vars

\* every URL that some block pushes (deepCrawl's block pushes none)
ContributedUrls(inputs) == Range(PushedBeforeDeep(inputs).aggregated.allUrls)

\* the two profiles hold the same values in the field
SameValues(a, b, field) == Range(a[field]) = Range(b[field])

\* C15 as stated: whatever the order in which the blocks were merged, the
\* merged profile holds the same set of values in allEmails, allUsernames,
\* allUrls and allWallets as the merge in the order of the code.
C15_AsClaimed ==
    mergePc = "merged" =>
        \A field \in {"allEmails", "allUsernames", "allUrls", "allWallets"} :
            SameValues(mergeResult.aggregated, CodeMerge(mergeInputs).aggregated, field)

\* C15: whatever the order in which the blocks were merged, the merged
\* profile holds the same set of values in allEmails, allUsernames and
\* allWallets as the merge in the order of the code, and the same set in
\* allUrls when at most 20 distinct URLs were contributed; with more, allUrls
\* holds 20 of the contributed URLs, which 20 depending on the order.
C15_OrderIndependent ==
    mergePc = "merged" =>
        LET got == mergeResult.aggregated
            ref == CodeMerge(mergeInputs).aggregated
            urls == ContributedUrls(mergeInputs)
        IN  /\ \A field \in {"allEmails", "allUsernames", "allWallets"} :
                  SameValues(got, ref, field)
            /\ Cardinality(urls) <= 20 => SameValues(got, ref, "allUrls")
            /\ Range(got.allUrls) \subseteq urls
            /\ Len(got.allUrls) = Min(20, Cardinality(urls))
            /\ NoDuplicates(got.allUrls)

C15_Witness ==
    /\ mergePc = "merged"
    /\ mergeLog = <<"deep", "reddit", "pastes", "github", "website", "x">>
    /\ mergeInputs.deep # Null
    /\ Cardinality(ContributedUrls(mergeInputs)) \in 2..20
    /\ Len(mergeResult.aggregated.allEmails) > 2
    /\ Len(mergeResult.aggregated.allWallets) > 0

\* C16: when one block was merged twice, allEmails, allUsernames, allUrls
\* and allWallets of the merged profile are the lists that merging every
\* block once, in the same order, yields.
C16_IdempotentDedup ==
    (mergePc = "merged" /\ ~NoDuplicates(mergeLog)) =>
        LET twice == mergeResult.aggregated
            once == mergeOnce.aggregated
        IN  /\ twice.allEmails = once.allEmails
            /\ twice.allUsernames = once.allUsernames
            /\ twice.allUrls = once.allUrls
            /\ twice.allWallets = once.allWallets

C16_Witness ==
    /\ mergePc = "merged"
    /\ mergeLog = <<"x", "website", "github", "github", "pastes", "reddit", "deep">>
    /\ mergeInputs.deep = Null
    /\ Len(mergeInputs.github.value.extractedEmails) > 0
    /\ Len(mergeInputs.github.value.relatedUsers) > 0

(***************************************************************************)
(* Properties of the lists deepCrawl returns                               *)
(***************************************************************************)
\* C14: in the scamMentions of the result no two entries have the same
\* keyword and the same url.
C14_MentionsUnique ==
    \A i, j \in 1..Len(result.scamMentions) :
        (/\ result.scamMentions[i].keyword = result.scamMentions[j].keyword
         /\ result.scamMentions[i].url = result.scamMentions[j].url) => i = j

\* C18: whenever deepCrawl returns, allEmails, allUsernames, allWallets and
\* allSocialLinks contain no repeated value.
C18_NoRepeatedValue ==
    pc = "returned" =>
        /\ NoDuplicates(result.allEmails)
        /\ NoDuplicates(result.allUsernames)
        /\ NoDuplicates(result.allWallets)
        /\ NoDuplicates(result.allSocialLinks)

(***************************************************************************)
(* Properties of the profile masterRecon returns                           *)
(***************************************************************************)
\* C17: in the profile that masterRecon returns, no two entries of allEmails
\* and no two entries of allUsernames are equal after lower-casing.
C17_CaseInsensitiveDedup ==
    reconPc = "resolved" =>
        /\ NoDuplicates(LowerEmails(reconResult.aggregated.allEmails))
        /\ NoDuplicates(LowerEmails(reconResult.aggregated.allUsernames))

\* an adapter call that was started and has not settled
SomeAdapterPending == \E a \in Range(Adapters) : settled[a] = Pending

\* deepCrawl was called and has not returned
DeepCrawlInProgress == reconPc = "deep"

\* C19 as stated: deepCrawl is started together with the adapter calls, so
\* while an adapter call is pending of a run that crawls, deepCrawl is in
\* progress.
C19_AsClaimed ==
    (shouldDeepCrawl /\ reconPc # "idle" /\ SomeAdapterPending) => DeepCrawlInProgress

\* C19: the adapter calls are started together and deepCrawl is called only
\* after every one of them has settled and their results were merged: while
\* deepCrawl is in progress no adapter call is pending, and its seeds are
\* the merged, deduplicated lists.
C19_CrawlAfterJoin ==
    DeepCrawlInProgress =>
        /\ ~SomeAdapterPending
        /\ shouldDeepCrawl
        /\ reconResult.deepCrawl = Null
        /\ NoDuplicates(reconResult.aggregated.allEmails)
        /\ NoDuplicates(reconResult.aggregated.allUsernames)

C19_Witness ==
    /\ DeepCrawlInProgress
    /\ \A a \in Range(Adapters) :
           settled[a].status = "fulfilled" /\ settled[a].value # Null
    /\ Len(reconResult.aggregated.allEmails) > 0

(***************************************************************************)
(* Properties of deepCrawl: budget exhaustion and the URL queue            *)
(***************************************************************************)
\* a loop was left by break: the dork loop before its last dork, or the crawl
\* loop before the end of the queue
LoopBroke == dorkIdx <= Len(dorks) \/ qIdx <= Len(urlQueue)

\* the run went through the tail of the try block, or was on its way to it
ReachedTail == lastOp \in {"finish", "crawl_time_break", "crawl_pages_break"}

\* every lead of every crawled page is in the merged lists
LeadsMerged(res) ==
    \A i \in 1..Len(res.crawledPages) :
        /\ Range(res.crawledPages[i].emails) \subseteq Range(res.allEmails)
        /\ Range(res.crawledPages[i].usernames) \subseteq Range(res.allUsernames)
        /\ Range(res.crawledPages[i].wallets) \subseteq Range(res.allWallets)
        /\ Range(res.crawledPages[i].socialLinks) \subseteq Range(res.allSocialLinks)

C25_FrontierBound ==
    /\ [](Len(urlQueue) <= MAX_TOTAL_PAGES)
    /\ [][/\ Len(urlQueue') >= Len(urlQueue)
          /\ SubSeq(urlQueue', 1, Len(urlQueue)) = urlQueue
          /\ Len(urlQueue') - Len(urlQueue) <= MAX_PAGES_PER_DORK
          /\ Len(urlQueue) >= MAX_TOTAL_PAGES => urlQueue' = urlQueue
          /\ Len(discovered') - Len(discovered) <= MAX_PAGES_PER_DORK]_vars

\* the queue is full and the searches went on to return URLs never seen
C25_Witness ==
    /\ lastOp = "search"
    /\ Len(urlQueue) = MAX_TOTAL_PAGES
    /\ allFresh
    /\ Len(discovered) > MAX_TOTAL_PAGES

\* C26: a URL returned by several searches occupies at most one slot of the
\* URL queue.
C26_OneSlotPerUrl == NoDuplicates(urlQueue)

(***************************************************************************)
(* Properties of masterRecon: the report                                   *)
(***************************************************************************)
\* masterRecon is awaiting, or has resolved: no step of it rejects
NeverRejects == reconPc \in {"idle", "fanout", "website", "deep", "resolved"}

\* C23: masterRecon never rejects, and the result it resolves with lists
\* the failures in errors: one entry for every adapter that threw.
C23_AlwaysReports ==
    /\ NeverRejects
    /\ reconPc = "resolved" =>
          Cardinality(AdapterErrors(reconResult)) = Cardinality(threw)

(***************************************************************************)
(* The shared browser of lib/browser.ts: getBrowser and closeBrowser       *)
(* called by concurrent callers.  A browser is the number of its launch.   *)
(***************************************************************************)
\* the largest number of launches of a run
MaxLaunches == 3

\* everything outside lib/browser.ts's browser
outsideBrowser == <<crawlVars, scoreVars, reconVars, dorkVars, mergeVars, rateVars,
                    cacheVars, regexVars,
        timeVars>>

\* getBrowser() up to its first await: return the instance when there is one,
\* else start chromium.launch
GetBrowserCall(c) ==
    /\ callerPc[c] = "idle"
    /\ IF browserInstance # NoBrowser
       THEN /\ callerPc' = [callerPc EXCEPT ![c] = "returned"]
            /\ callerGot' = [callerGot EXCEPT ![c] = browserInstance]
            /\ UNCHANGED <<callerLaunch, launches>>
       ELSE /\ launches < MaxLaunches
            /\ launches' = launches + 1
            /\ callerLaunch' = [callerLaunch EXCEPT ![c] = launches + 1]
            /\ callerPc' = [callerPc EXCEPT ![c] = "launching"]
            /\ UNCHANGED callerGot
    /\ UNCHANGED <<browserInstance, connected, closing, disturbed, outsideBrowser>>

\* chromium.launch resolves: the instance is assigned, the 'disconnected'
\* handler is registered, and browserInstance is returned
LaunchResolves(c) ==
    /\ callerPc[c] = "launching"
    /\ browserInstance' = callerLaunch[c]
    /\ connected' = connected \cup {callerLaunch[c]}
    /\ callerPc' = [callerPc EXCEPT ![c] = "returned"]
    /\ callerGot' = [callerGot EXCEPT ![c] = callerLaunch[c]]
    /\ UNCHANGED <<callerLaunch, launches, closing, disturbed, outsideBrowser>>

\* chromium.launch rejects, and so does getBrowser
LaunchRejects(c) ==
    /\ callerPc[c] = "launching"
    /\ callerPc' = [callerPc EXCEPT ![c] = "rejected"]
    /\ UNCHANGED <<browserInstance, callerLaunch, callerGot, launches, connected,
                   closing, disturbed, outsideBrowser>>

\* the caller is done with this call and may call again
CallerDone(c) ==
    /\ callerPc[c] \in {"returned", "rejected"}
    /\ callerPc' = [callerPc EXCEPT ![c] = "idle"]
    /\ UNCHANGED <<browserInstance, callerLaunch, callerGot, launches, connected,
                   closing, disturbed, outsideBrowser>>

\* a browser's 'disconnected' event: its handler clears the module variable
Disconnected(b) ==
    /\ b \in connected
    /\ connected' = connected \ {b}
    /\ browserInstance' = NoBrowser
    /\ disturbed' = TRUE
    /\ UNCHANGED <<callerPc, callerLaunch, callerGot, launches, closing,
                   outsideBrowser>>

\* closeBrowser() up to await browserInstance.close()
CloseBrowserCall ==
    /\ closing = NoBrowser
    /\ browserInstance # NoBrowser
    /\ closing' = browserInstance
    /\ disturbed' = TRUE
    /\ UNCHANGED <<browserInstance, callerPc, callerLaunch, callerGot, launches,
                   connected, outsideBrowser>>

\* close() resolves; browserInstance = null
CloseBrowserResolves ==
    /\ closing # NoBrowser
    /\ connected' = connected \ {closing}
    /\ browserInstance' = NoBrowser
    /\ closing' = NoBrowser
    /\ UNCHANGED <<callerPc, callerLaunch, callerGot, launches, disturbed,
                   outsideBrowser>>

NextBrowser ==
    \/ \E c \in Callers : GetBrowserCall(c)
    \/ \E c \in Callers : LaunchResolves(c)
    \/ \E c \in Callers : LaunchRejects(c)
    \/ \E c \in Callers : CallerDone(c)
    \/ \E b \in 1..MaxLaunches : Disconnected(b)
    \/ CloseBrowserCall
    \/ CloseBrowserResolves

InitBrowser ==
    CrawlIdle /\ ScoreIdle /\ ReconIdle /\ DorksIdle /\ MergeIdle /\ BrowserIdle
    /\ RateIdle /\ CacheIdle /\ RegexIdle /\ TimeIdle

SpecBrowser == InitBrowser /\ [][NextBrowser]_vars

\* C29: while no 'disconnected' event and no closeBrowser has occurred, at
\* most one browser was launched, and all the callers that getBrowser
\* returned to received the same instance.
C29_Singleton ==
    ~disturbed =>
        /\ launches <= 1
        /\ \A c1, c2 \in Callers :
              (callerGot[c1] # NoBrowser /\ callerGot[c2] # NoBrowser)
                  => callerGot[c1] = callerGot[c2]

(***************************************************************************)
(* The per-user rate limit of Discord commands: checkDiscordRateLimit, the *)
(* periodic cleanup and the interactionCreate handler.  Time is counted in *)
(* units of 500 ms: a second is 2 units and the window is scaled down to 4 *)
(* units (the default is 60000 ms).  RATE_LIMIT_MAX_REQUESTS is read from *)
(* the environment as any number (z.coerce.number(), default 10): a run    *)
(* starts with a limit between 0 and 2.                                    *)
(***************************************************************************)
RATE_LIMIT_WINDOW_MS == 4
RATE_LIMIT_MAX_REQUESTS == 0..2
\* the 1000 of Math.ceil((userLimit.resetAt - now) / 1000)
MsPerSecond == 2

\* the last instant of a run, and the largest number of interactions
MaxTime == 9
MaxInteractions == 5

\* Math.ceil(a / b) for a >= 0
CeilDiv(a, b) == (a + b - 1) \div b

\* A check that denies only above the limit.
checkDiscordRateLimitAboveLimit(limiter, userId, t) ==
    LET userLimit == limiter[userId]
    IN  IF userLimit = Null \/ t > userLimit.resetAt
        THEN [ limiter |-> [limiter EXCEPT ![userId] =
                              [count |-> 1, resetAt |-> t + RATE_LIMIT_WINDOW_MS]],
               allowed |-> TRUE, retryAfter |-> 0 ]
        ELSE IF userLimit.count > configMaxRequests
        THEN [ limiter |-> limiter, allowed |-> FALSE,
               retryAfter |-> CeilDiv(userLimit.resetAt - t, MsPerSecond) ]
        ELSE [ limiter |-> [limiter EXCEPT ![userId].count = @ + 1],
               allowed |-> TRUE, retryAfter |-> 0 ]

\* checkDiscordRateLimit(userId) at Date.now() = t: the map afterwards and
\* the value returned (retryAfter is 0 when the code leaves it undefined)
checkDiscordRateLimit(limiter, userId, t) ==
    LET userLimit == limiter[userId]
    IN  IF userLimit = Null \/ t > userLimit.resetAt
        THEN [ limiter |-> [limiter EXCEPT ![userId] =
                              [count |-> 1, resetAt |-> t + RATE_LIMIT_WINDOW_MS]],
               allowed |-> TRUE, retryAfter |-> 0 ]
        ELSE IF userLimit.count >= configMaxRequests
        THEN [ limiter |-> limiter, allowed |-> FALSE,
               retryAfter |-> CeilDiv(userLimit.resetAt - t, MsPerSecond) ]
        ELSE [ limiter |-> [limiter EXCEPT ![userId].count = @ + 1],
               allowed |-> TRUE, retryAfter |-> 0 ]

outsideRate == <<crawlVars, scoreVars, reconVars, dorkVars, mergeVars, browserVars,
                 cacheVars, regexVars,
        timeVars>>

\* time passes
Tick ==
    /\ now < MaxTime
    /\ now' = now + 1
    /\ UNCHANGED <<discordRateLimiter, interactions, verdict, allowedAt, executed,
                   lastDenied, configMaxRequests, outsideRate>>

\* the setInterval callback: entries whose window is over are deleted
Cleanup ==
    /\ \E u \in Users :
          discordRateLimiter[u] # Null /\ now > discordRateLimiter[u].resetAt
    /\ discordRateLimiter' =
          [u \in Users |->
              IF discordRateLimiter[u] # Null /\ now > discordRateLimiter[u].resetAt
              THEN Null ELSE discordRateLimiter[u]]
    /\ UNCHANGED <<now, interactions, verdict, allowedAt, executed, lastDenied,
                   configMaxRequests, outsideRate>>

\* an interaction that is no chat input command, or names no known command:
\* the handler returns before the rate check
InteractionIgnored ==
    /\ interactions < MaxInteractions
    /\ interactions' = interactions + 1
    /\ UNCHANGED <<now, discordRateLimiter, verdict, allowedAt, executed,
                   lastDenied, configMaxRequests, outsideRate>>

\* a known chat input command of the user: the rate check, then either the
\* rate-limit reply or command.execute
InteractionCommand(u) ==
    /\ interactions < MaxInteractions
    /\ interactions' = interactions + 1
    /\ LET rateCheck == checkDiscordRateLimit(discordRateLimiter, u, now)
       IN  /\ discordRateLimiter' = rateCheck.limiter
           /\ verdict' = [seq |-> verdict.seq + 1, user |-> u,
                          allowed |-> rateCheck.allowed,
                          retryAfter |-> rateCheck.retryAfter]
           /\ IF rateCheck.allowed
              THEN /\ executed' = [executed EXCEPT ![u] = @ + 1]
                   /\ allowedAt' = [allowedAt EXCEPT ![u] = Append(@, now)]
                   /\ lastDenied' = [lastDenied EXCEPT ![u] = Null]
              ELSE /\ lastDenied' = [lastDenied EXCEPT ![u] =
                                        [at |-> now, retryAfter |-> rateCheck.retryAfter]]
                   /\ UNCHANGED <<executed, allowedAt>>
    /\ UNCHANGED <<now, configMaxRequests, outsideRate>>

NextRate ==
    \/ Tick
    \/ Cleanup
    \/ InteractionIgnored
    \/ \E u \in Users : InteractionCommand(u)

InitRate ==
    CrawlIdle /\ ScoreIdle /\ ReconIdle /\ DorksIdle /\ MergeIdle /\ BrowserIdle
    /\ RateStart /\ configMaxRequests \in RATE_LIMIT_MAX_REQUESTS
    /\ CacheIdle /\ RegexIdle /\ TimeIdle

SpecRate == InitRate /\ [][NextRate]_vars

\* the allowed checks of the user in the window that ends at resetAt
AllowedInWindow(u, resetAt) ==
    {i \in 1..Len(allowedAt[u]) :
        /\ allowedAt[u][i] >= resetAt - RATE_LIMIT_WINDOW_MS
        /\ allowedAt[u][i] <= resetAt}

\* the step is a rate check of user u
ChecksUser(u) == verdict'.seq = verdict.seq + 1 /\ verdict'.user = u

\* the allowed checks of every user's current window number at most limit,
\* and the entry's count is their number
WindowWithin(limit) ==
    \A u \in Users :
        discordRateLimiter[u] # Null =>
            /\ Cardinality(AllowedInWindow(u, discordRateLimiter[u].resetAt))
                  <= limit
            /\ discordRateLimiter[u].count
                  = Cardinality(AllowedInWindow(u, discordRateLimiter[u].resetAt))

\* an entry changes only by an allowed check of its user or by the cleanup
\* after its window; a command is executed only by an allowed check of its
\* user; a denied check changes neither the map nor the executions
OnlyAllowedChecksCount ==
    \A u \in Users :
        /\ discordRateLimiter'[u] # discordRateLimiter[u] =>
              \/ ChecksUser(u) /\ verdict'.allowed
              \/ /\ discordRateLimiter'[u] = Null
                 /\ now > discordRateLimiter[u].resetAt
        /\ executed'[u] # executed[u] =>
              /\ ChecksUser(u) /\ verdict'.allowed
              /\ executed'[u] = executed[u] + 1
        /\ (ChecksUser(u) /\ ~verdict'.allowed) =>
              /\ discordRateLimiter' = discordRateLimiter
              /\ executed' = executed

C28_RetryAfterSufficient ==
    /\ [](\A u \in Users : lastDenied[u] # Null => lastDenied[u].retryAfter >= 1)
    /\ [][\A u \in Users :
            (/\ lastDenied[u] # Null
             /\ ChecksUser(u)
             /\ now = lastDenied[u].at + lastDenied[u].retryAfter * MsPerSecond)
            => verdict'.allowed]_vars

(***************************************************************************)
(* The REST API routes /x, /email and /username and the Redis cache in     *)
(* front of the lookups.  Identifiers are sequences of characters, so that *)
(* validation and toLowerCase are computed.  A handler runs in three       *)
(* steps separated by its awaits (cache.get, the lookup, cache.set), and   *)
(* two requests can be in flight at once.                                  *)
(***************************************************************************)
MaxRequests == 3

Routes == {"x", "email", "username"}

\* the cache type each route passes to cache.get and cache.set
CacheType(route) ==
    CASE route = "x"        -> "x_profile"
      [] route = "email"    -> "email"
      [] route = "username" -> "username"

\* the route parameters of the requests
RawIdentifiers(route) ==
    IF route = "email"
    THEN { <<"A", "@", "b", ".", "i", "o">>, <<"a", "@", "b", ".", "i", "o">>,
           <<"a", "b">> }
    ELSE { <<"A", "b">>, <<"a", "b">>, <<"a", " ">> }

\* [a-zA-Z0-9_] over the characters of the model
WordChars == {"a", "b", "i", "o", "A", "B", "_"}

\* z.string().min(1).max(50).regex(/^[a-zA-Z0-9_]+$/)
usernameSchema(s) ==
    /\ Len(s) >= 1
    /\ Len(s) <= 50
    /\ \A i \in 1..Len(s) : s[i] \in WordChars

\* z.string().email() over the characters of the model: one "@", before it
\* a non-empty local part of word characters, after it a domain of labels
\* of word characters that ends with a label of two letters or more
emailSchema(s) ==
    \E at \in 1..Len(s) :
        /\ s[at] = "@"
        /\ at > 1
        /\ \A i \in 1..(at - 1) : s[i] \in WordChars
        /\ \E dot \in (at + 2)..(Len(s) - 2) :
              /\ s[dot] = "."
              /\ \A i \in ((at + 1)..Len(s)) \ {dot} : s[i] \in WordChars \ {"_"}

safeParse(route, s) ==
    IF route = "email" THEN emailSchema(s) ELSE usernameSchema(s)

\* CacheClient.generateKey
generateKey(type, identifier) == <<"osint", type, ToLowerCase(identifier)>>

outsideCache == <<crawlVars, scoreVars, reconVars, dorkVars, mergeVars, browserVars,
                  rateVars, regexVars,
        timeVars>>

\* the 'connect' event of the Redis client
RedisConnect ==
    /\ ~connected_
    /\ connected_' = TRUE
    /\ UNCHANGED <<redisStore, reqPc, req, response, received, outsideCache>>

\* the 'error' and 'close' events of the Redis client
RedisClose ==
    /\ connected_
    /\ connected_' = FALSE
    /\ UNCHANGED <<redisStore, reqPc, req, response, received, outsideCache>>

\* the time to live of a key runs out
Expire(key) ==
    /\ redisStore[key] # Null
    /\ redisStore' = [redisStore EXCEPT ![key] = Null]
    /\ UNCHANGED <<connected_, reqPc, req, response, received, outsideCache>>

\* a request arrives: validation; an invalid identifier is answered 400, a
\* valid one is lower-cased and the handler awaits cache.get
Receive(s, route, raw) ==
    /\ reqPc[s] = "idle"
    /\ received < MaxRequests
    /\ received' = received + 1
    /\ IF ~safeParse(route, raw)
       THEN /\ response' = [response EXCEPT ![s] =
                  [route |-> route, raw |-> raw, status |-> 400, cached |-> FALSE,
                   data |-> Null, got |-> Null, looked |-> FALSE, touched |-> FALSE]]
            /\ UNCHANGED <<reqPc, req>>
       ELSE /\ req' = [req EXCEPT ![s] =
                  [route |-> route, raw |-> raw, identifier |-> ToLowerCase(raw),
                   got |-> Null, data |-> Null, looked |-> FALSE, touched |-> FALSE]]
            /\ reqPc' = [reqPc EXCEPT ![s] = "get"]
            /\ response' = [response EXCEPT ![s] = Null]
    /\ UNCHANGED <<connected_, redisStore, outsideCache>>

\* cache.get resolves: null when not connected, on a miss and on a Redis
\* error; a hit is answered at once with cached: true
CacheGet(s, redisFails) ==
    /\ reqPc[s] = "get"
    /\ LET key == generateKey(CacheType(req[s].route), req[s].identifier)
           got == IF ~connected_ \/ redisFails THEN Null ELSE redisStore[key]
       IN  IF got # Null
           THEN /\ response' = [response EXCEPT ![s] =
                      [route |-> req[s].route, raw |-> req[s].raw, status |-> 200,
                       cached |-> TRUE, data |-> got, got |-> got,
                       looked |-> FALSE, touched |-> TRUE]]
                /\ reqPc' = [reqPc EXCEPT ![s] = "idle"]
                /\ req' = [req EXCEPT ![s] = Null]
           ELSE /\ req' = [req EXCEPT ![s].touched = connected_]
                /\ reqPc' = [reqPc EXCEPT ![s] = "lookup"]
                /\ UNCHANGED response
    /\ UNCHANGED <<connected_, redisStore, received, outsideCache>>

\* the lookup settles: with a result whose errors list is empty or not, or
\* with an exception, which the handler answers 500
Lookup(s, outcome) ==
    /\ reqPc[s] = "lookup"
    /\ IF outcome = "throws"
       THEN /\ response' = [response EXCEPT ![s] =
                  [route |-> req[s].route, raw |-> req[s].raw, status |-> 500,
                   cached |-> FALSE, data |-> Null, got |-> Null,
                   looked |-> TRUE, touched |-> req[s].touched]]
            /\ reqPc' = [reqPc EXCEPT ![s] = "idle"]
            /\ req' = [req EXCEPT ![s] = Null]
       ELSE /\ req' = [req EXCEPT ![s].looked = TRUE,
                                  ![s].data =
                                     [ identifier |-> req[s].identifier,
                                       errors |-> IF outcome = "errors"
                                                  THEN <<"lookup failed">>
                                                  ELSE <<>> ]]
            /\ reqPc' = [reqPc EXCEPT ![s] = "set"]
            /\ UNCHANGED response
    /\ UNCHANGED <<connected_, redisStore, received, outsideCache>>

\* A handler that stores every result.
StoreAndRespondAlways(s, redisFails) ==
    /\ reqPc[s] = "set"
    /\ LET key == generateKey(CacheType(req[s].route), req[s].identifier)
       IN  redisStore' = [redisStore EXCEPT ![key] = req[s].data]
    /\ response' = [response EXCEPT ![s] =
          [route |-> req[s].route, raw |-> req[s].raw, status |-> 200,
           cached |-> FALSE, data |-> req[s].data, got |-> Null,
           looked |-> TRUE, touched |-> TRUE]]
    /\ reqPc' = [reqPc EXCEPT ![s] = "idle"]
    /\ req' = [req EXCEPT ![s] = Null]
    /\ UNCHANGED <<connected_, received, outsideCache>>

\* the result is stored when its errors list is empty (cache.set does
\* nothing when not connected and swallows a Redis error), then answered
\* with cached: false
StoreAndRespond(s, redisFails) ==
    /\ reqPc[s] = "set"
    /\ LET key == generateKey(CacheType(req[s].route), req[s].identifier)
       IN  IF Len(req[s].data.errors) = 0 /\ connected_ /\ ~redisFails
           THEN redisStore' = [redisStore EXCEPT ![key] = req[s].data]
           ELSE UNCHANGED redisStore
    /\ response' = [response EXCEPT ![s] =
          [route |-> req[s].route, raw |-> req[s].raw, status |-> 200,
           cached |-> FALSE, data |-> req[s].data, got |-> Null,
           looked |-> TRUE,
           touched |-> req[s].touched
                          \/ (Len(req[s].data.errors) = 0 /\ connected_)]]
    /\ reqPc' = [reqPc EXCEPT ![s] = "idle"]
    /\ req' = [req EXCEPT ![s] = Null]
    /\ UNCHANGED <<connected_, received, outsideCache>>

NextCache ==
    \/ RedisConnect
    \/ RedisClose
    \/ \E key \in CacheKeys : Expire(key)
    \/ \E s \in Slots, route \in Routes :
          \E raw \in RawIdentifiers(route) : Receive(s, route, raw)
    \/ \E s \in Slots, redisFails \in BOOLEAN : CacheGet(s, redisFails)
    \/ \E s \in Slots, outcome \in {"ok", "errors", "throws"} : Lookup(s, outcome)
    \/ \E s \in Slots, redisFails \in BOOLEAN : StoreAndRespond(s, redisFails)

InitCache ==
    CrawlIdle /\ ScoreIdle /\ ReconIdle /\ DorksIdle /\ MergeIdle /\ BrowserIdle
    /\ RateIdle /\ CacheIdle /\ RegexIdle /\ TimeIdle

SpecCache == InitCache /\ [][NextCache]_vars

\* the responses sent obey the discipline
ResponsesDisciplined ==
    \A s \in Slots :
        response[s] # Null =>
            LET r == response[s]
            IN  /\ ~safeParse(r.route, r.raw) =>
                      r.status = 400 /\ ~r.looked /\ ~r.touched
                /\ r.status = 400 => ~safeParse(r.route, r.raw)
                /\ r.cached =>
                      /\ r.status = 200
                      /\ ~r.looked
                      /\ r.data = r.got
                      /\ Len(r.data.errors) = 0
                      /\ r.data.identifier = ToLowerCase(r.raw)
                /\ (r.status = 200 /\ ~r.cached) => r.looked /\ r.got = Null

\* C30: an invalid identifier is answered 400 without touching cache or
\* lookup; a cache hit is answered with cached=true without a lookup; on a
\* miss the lookup runs and its result is stored only if its errors list is
\* empty, under the key of the lower-cased identifier, so no result with
\* errors is in the cache or served from it.
C30_CacheDiscipline ==
    /\ [](ResponsesDisciplined)
    /\ [](\A key \in CacheKeys :
            redisStore[key] # Null =>
                /\ Len(redisStore[key].errors) = 0
                /\ redisStore[key].identifier = key[3])
    /\ [][\A key \in CacheKeys :
            (redisStore'[key] # redisStore[key] /\ redisStore'[key] # Null) =>
                \E s \in Slots :
                    /\ reqPc[s] = "set"
                    /\ req[s].looked
                    /\ Len(req[s].data.errors) = 0
                    /\ key = <<"osint", CacheType(req[s].route),
                               ToLowerCase(req[s].raw)>>
                    /\ redisStore'[key] = req[s].data]_vars

\* a miss for one spelling of an identifier was looked up and stored, and a
\* request with another spelling of it was served from the cache
C30_Witness ==
    \E s, t \in Slots :
        /\ response[s] # Null /\ response[t] # Null
        /\ response[s].status = 200 /\ ~response[s].cached /\ response[s].looked
        /\ response[t].cached
        /\ response[t].route = response[s].route
        /\ response[t].raw # response[s].raw
        /\ response[t].data = response[s].data

(***************************************************************************)
(* The pattern-based extractors and the state of their regular             *)
(* expressions.  A string is a sequence of tokens (a scheme, a host with   *)
(* its slash, a name, an e-mail address, a separator) and lastIndex counts *)
(* tokens.  A social pattern matches a host of its platform followed by a  *)
(* name, an e-mail pattern matches an address.                             *)
(***************************************************************************)
MaxLinks == 2

NameTokens == {"alice", "bob"}
EmailTokens == {"a@x.io"}

\* the hosts a pattern accepts
PatternHosts(id) ==
    CASE id \in {"SOCIAL_PATTERNS.Twitter/X", "twitter"} -> {"twitter.com/", "x.com/"}
      [] id \in {"SOCIAL_PATTERNS.GitHub", "PATTERNS.github", "github"} -> {"github.com/"}
      [] OTHER -> {}

IsEmailPattern(id) ==
    id \in {"recon.EMAIL_PATTERN", "PATTERNS.email", "crawler.EMAIL_PATTERN"}

\* the pattern matches s at position p (counted from 0), and where the match ends
MatchesAt(id, s, p) ==
    IF IsEmailPattern(id)
    THEN p + 1 <= Len(s) /\ s[p + 1] \in EmailTokens
    ELSE p + 2 <= Len(s) /\ s[p + 1] \in PatternHosts(id) /\ s[p + 2] \in NameTokens

MatchEnd(id, p) == IF IsEmailPattern(id) THEN p + 1 ELSE p + 2

SetMin(S) == CHOOSE x \in S : \A y \in S : x <= y

\* RegExp.prototype.exec of a regular expression with the g flag whose
\* lastIndex is from: the first match at or after from, and the lastIndex
\* left behind (the end of the match, or 0 when there is none)
exec(id, s, from) ==
    LET starts == {p \in from..Len(s) : MatchesAt(id, s, p)}
    IN  IF starts = {}
        THEN [found |-> FALSE, lastIndex |-> 0, text |-> <<>>, group |-> <<>>]
        ELSE LET p == SetMin(starts)
             IN  [found |-> TRUE, lastIndex |-> MatchEnd(id, p),
                  text |-> SubSeq(s, p + 1, MatchEnd(id, p)),
                  group |-> <<s[MatchEnd(id, p)]>>]

\* while ((match = pattern.exec(s)) !== null) collect(match): the matches
\* found when the loop is entered with lastIndex = from; the loop ends with
\* the failed exec, which leaves lastIndex 0
RECURSIVE ExecLoop(_, _, _)
ExecLoop(id, s, from) ==
    LET r == exec(id, s, from)
    IN  IF r.found THEN <<r>> \o ExecLoop(id, s, r.lastIndex) ELSE <<>>

\* String.prototype.match with a g regular expression: lastIndex is set to
\* 0, all matches are collected, lastIndex is 0 afterwards
MatchTexts(id, s) ==
    LET ms == ExecLoop(id, s, 0) IN [i \in 1..Len(ms) |-> ms[i].text[1]]

Groups(ms) == [i \in 1..Len(ms) |-> ms[i].group[1]]

\* the links of the pages
Links ==
    { <<"https://", "twitter.com/", "alice">>,
      <<"https://", "x.com/", "bob">>,
      <<"https://", "github.com/", "alice">>,
      <<"https://", "other.io/", "about">>,
      <<"https://", "site.io/", "about">>,
      <<"mailto:", "a@x.io">> }

\* new URL(normalizedUrl).hostname of the crawled site, with its slash
SiteHost == "site.io/"

\* a page is given by the href attributes of its anchors
Pages == SeqsUpTo(Links, MaxLinks)

\* the text of a page: its links one after the other
RECURSIVE PageContent(_)
PageContent(links) ==
    IF links = <<>> THEN <<>>
    ELSE Head(links) \o <<" ">> \o PageContent(Tail(links))

\* SOCIAL_PATTERNS.some(p => p.pattern.test(link)) from pattern k on: the
\* answer and the lastIndex of the patterns afterwards
RECURSIVE SomeTest(_, _, _)
SomeTest(link, k, li) ==
    IF k > Len(SocialPatternIds) THEN [hit |-> FALSE, li |-> li]
    ELSE LET id == SocialPatternIds[k]
             r  == exec(id, link, li[id])
             li2 == [li EXCEPT ![id] = r.lastIndex]
         IN  IF r.found THEN [hit |-> TRUE, li |-> li2]
             ELSE SomeTest(link, k + 1, li2)

\* link.startsWith('http') && !link.includes(hostname)
ForeignHttp(link) ==
    /\ Head(link) = "https://"
    /\ \A i \in 1..Len(link) : link[i] # SiteHost

\* allLinks.filter(...) of crawlWebsite, link by link: the links kept and
\* the lastIndex of the patterns afterwards
RECURSIVE FilterExternal(_, _)
FilterExternal(links, li) ==
    IF links = <<>> THEN [kept |-> <<>>, li |-> li]
    ELSE IF ~ForeignHttp(Head(links)) THEN FilterExternal(Tail(links), li)
    ELSE LET t    == SomeTest(Head(links), 1, li)
             rest == FilterExternal(Tail(links), t.li)
         IN  [kept |-> IF t.hit THEN rest.kept ELSE <<Head(links)>> \o rest.kept,
              li |-> rest.li]

\* the social links of one pattern: in every link the first match with
\* lastIndex set to 0 before (l.162-164), then every match of the content
\* with lastIndex set to 0 before the loop (l.182-185)
SocialOf(id, links) ==
    LET perLink == SelectSeq([i \in 1..Len(links) |-> exec(id, links[i], 0)],
                             LAMBDA r : r.found)
        inContent == ExecLoop(id, PageContent(links), 0)
    IN  [i \in 1..Len(perLink) |-> <<id, perLink[i].group[1]>>]
            \o [i \in 1..Len(inContent) |-> <<id, inContent[i].group[1]>>]

\* the lastIndex of the social patterns after the content loops: each loop
\* ends with the exec that fails
AfterContentLoops(li) ==
    [id \in GlobalRegexIds |-> IF id \in Range(SocialPatternIds) THEN 0 ELSE li[id]]

\* crawlWebsite on a page, entered with lastIndex li: the leads returned
\* and the lastIndex afterwards
crawlWebsite(links, li) ==
    LET content == PageContent(links)
        li1 == [li EXCEPT !["recon.EMAIL_PATTERN"] = 0]
        f   == FilterExternal(links, AfterContentLoops(li1))
    IN  [ out |-> [ emails |-> Dedup(MatchTexts("recon.EMAIL_PATTERN", content)
                                        \o MatchTexts("recon.EMAIL_PATTERN", content)),
                    socialLinks |-> Dedup(SocialOf(SocialPatternIds[1], links)
                                              \o SocialOf(SocialPatternIds[2], links)),
                    externalLinks |-> Dedup(SubSeq(f.kept, 1, Min(10, Len(f.kept)))) ],
          li |-> f.li ]

\* extractPII on a text, entered with lastIndex li: the exec loop of
\* PATTERNS.github starts at the lastIndex it finds
extractPII(text, li) ==
    [ out |-> [ emails |-> Dedup(MatchTexts("PATTERNS.email", text)),
                githubProfiles |->
                    Dedup(Groups(ExecLoop("PATTERNS.github", text,
                                          li["PATTERNS.github"]))) ],
      li |-> [li EXCEPT !["PATTERNS.email"] = 0, !["PATTERNS.github"] = 0] ]

\* the extraction of crawlPage in the deep crawler: String.match throughout,
\* and social patterns that are created anew by every call
crawlPageLeads(text, li) ==
    [ out |-> [ emails |-> Dedup(MatchTexts("crawler.EMAIL_PATTERN", text)),
                socialLinks |->
                    LET tw == ExecLoop("twitter", text, 0)
                        gh == ExecLoop("github", text, 0)
                        all == [i \in 1..Len(tw) |-> tw[i].text]
                                  \o [i \in 1..Len(gh) |-> gh[i].text]
                    IN  SubSeq(Dedup(all), 1, Min(10, Len(Dedup(all)))) ],
      li |-> [li EXCEPT !["crawler.EMAIL_PATTERN"] = 0] ]

Extractors == {"crawlWebsite", "extractPII", "crawlPage"}

Extract(fn, links, li) ==
    CASE fn = "crawlWebsite" -> crawlWebsite(links, li)
      [] fn = "extractPII"   -> extractPII(PageContent(links), li)
      [] fn = "crawlPage"    -> crawlPageLeads(PageContent(links), li)

outsideRegex == <<crawlVars, scoreVars, reconVars, dorkVars, mergeVars, browserVars,
                  rateVars, cacheVars,
        timeVars>>

\* a page is loaded and its content read
LoadPage(links) ==
    /\ document' = links
    /\ lastCall' = Null
    /\ UNCHANGED <<lastIndex, outsideRegex>>

\* one extractor runs on the page at hand
CallExtractor(fn) ==
    /\ LET e == Extract(fn, document, lastIndex)
       IN  /\ lastCall' = [fn |-> fn, links |-> document, out |-> e.out]
           /\ lastIndex' = e.li
    /\ UNCHANGED <<document, outsideRegex>>

NextRegex ==
    \/ \E links \in Pages : LoadPage(links)
    \/ \E fn \in Extractors : CallExtractor(fn)

InitRegex ==
    CrawlIdle /\ ScoreIdle /\ ReconIdle /\ DorksIdle /\ MergeIdle /\ BrowserIdle
    /\ RateIdle /\ CacheIdle /\ RegexIdle /\ TimeIdle

SpecRegex == InitRegex /\ [][NextRegex]_vars

\* the leads of a page when every match is made from the start of its string
FreshIndex == [id \in GlobalRegexIds |-> 0]

SocialLink(link) ==
    \E id \in Range(SocialPatternIds) : exec(id, link, 0).found

HistoryFreeLeads(fn, links) ==
    IF fn = "crawlWebsite"
    THEN LET kept == SelectSeq(links, LAMBDA l : ForeignHttp(l) /\ ~SocialLink(l))
         IN  [crawlWebsite(links, FreshIndex).out EXCEPT
                 !.externalLinks = Dedup(SubSeq(kept, 1, Min(10, Len(kept))))]
    ELSE Extract(fn, links, FreshIndex).out

\* C24: for a fixed page every extractor returns the same leads on every
\* call, whatever earlier calls and earlier links left in lastIndex of the
\* shared regular expressions: the leads are those found when every match
\* is made from the start of its string.
C24_HistoryFree ==
    lastCall # Null => lastCall.out = HistoryFreeLeads(lastCall.fn, lastCall.links)

\* the same page gives the same leads whatever the earlier calls were
SameOnEveryCall ==
    lastCall # Null => lastCall.out = Extract(lastCall.fn, lastCall.links, FreshIndex).out

(***************************************************************************)
(* The time budget of deepCrawl.  Time is counted in units of 500 ms from  *)
(* startTime.  An operation with a timeout takes at most the timeout,      *)
(* whether it succeeds or fails; waitForTimeout takes its fixed time; the  *)
(* operations without a timeout (browser launch,                           *)
(* newPage, $$eval, title, content, evaluate, close) take no time.  The    *)
(* execution limit is scaled down from 360 units (180000 ms).              *)
(***************************************************************************)
\* CRAWL_TIMEOUT_MS = 10000, the timeout of page.goto
GotoTimeout == 20
\* waitForSelector('.result__a', { timeout: 5000 })
SelectorTimeout == 10
\* waitForTimeout(1000) after each search
SearchDelay == 2
\* waitForTimeout(1000) after the navigation of crawlPage
PageDelay == 2

\* MAX_EXECUTION_TIME_MS in units, and the number of queries
ExecutionLimit == 30
TimedDorks == 3

GotoDelays == {0, 1, GotoTimeout - 1, GotoTimeout}
SelectorDelays == {0, 1, SelectorTimeout}

\* the duration of executeSearch and of the wait that follows it
SearchDuration(gotoOk, gotoDelay, selDelay) ==
    (IF gotoOk THEN gotoDelay + selDelay ELSE gotoDelay) + SearchDelay

\* the duration of crawlPage
FetchDuration(gotoOk, gotoDelay) ==
    IF gotoOk THEN gotoDelay + PageDelay ELSE gotoDelay

outsideTime == <<crawlVars, scoreVars, reconVars, dorkVars, mergeVars, browserVars,
                 rateVars, cacheVars, regexVars>>

\* An iteration of the query loop that does not look at the clock.
TimedSearchUnchecked(gotoOk, gotoDelay, selDelay, n) ==
    /\ tPc = "dorks"
    /\ tDork <= TimedDorks
    /\ iterKind' = "search"
    /\ iterStart' = clock
    /\ clock' = clock + SearchDuration(gotoOk, gotoDelay, selDelay)
    /\ tQueued' = IF gotoOk THEN Min(tQueued + n, MAX_TOTAL_PAGES) ELSE tQueued
    /\ tDork' = tDork + 1
    /\ UNCHANGED <<tPc, tCrawled, outsideTime>>

\* one iteration of the query loop: the time check, executeSearch, the
\* enqueueing, the wait
TimedSearch(gotoOk, gotoDelay, selDelay, n) ==
    /\ tPc = "dorks"
    /\ tDork <= TimedDorks
    /\ ~(clock > ExecutionLimit)
    /\ iterKind' = "search"
    /\ iterStart' = clock
    /\ clock' = clock + SearchDuration(gotoOk, gotoDelay, selDelay)
    /\ tQueued' = IF gotoOk THEN Min(tQueued + n, MAX_TOTAL_PAGES) ELSE tQueued
    /\ tDork' = tDork + 1
    /\ UNCHANGED <<tPc, tCrawled, outsideTime>>

\* the query loop breaks on the time check
TimedSearchBreak ==
    /\ tPc = "dorks"
    /\ tDork <= TimedDorks
    /\ clock > ExecutionLimit
    /\ tPc' = "crawl"
    /\ UNCHANGED <<clock, tDork, tQueued, tCrawled, iterKind, iterStart, outsideTime>>

\* the query loop ends with the last query
TimedSearchEnd ==
    /\ tPc = "dorks"
    /\ tDork > TimedDorks
    /\ tPc' = "crawl"
    /\ UNCHANGED <<clock, tDork, tQueued, tCrawled, iterKind, iterStart, outsideTime>>

\* one iteration of the crawl loop: the time check, crawlPage
TimedFetch(gotoOk, gotoDelay) ==
    /\ tPc = "crawl"
    /\ tCrawled < tQueued
    /\ ~(clock > ExecutionLimit)
    /\ iterKind' = "fetch"
    /\ iterStart' = clock
    /\ clock' = clock + FetchDuration(gotoOk, gotoDelay)
    /\ tCrawled' = tCrawled + 1
    /\ UNCHANGED <<tPc, tDork, tQueued, outsideTime>>

\* the crawl loop breaks on the time check
TimedFetchBreak ==
    /\ tPc = "crawl"
    /\ tCrawled < tQueued
    /\ clock > ExecutionLimit
    /\ tPc' = "returned"
    /\ UNCHANGED <<clock, tDork, tQueued, tCrawled, iterKind, iterStart, outsideTime>>

\* the crawl loop ends with the last queued URL
TimedFetchEnd ==
    /\ tPc = "crawl"
    /\ tCrawled >= tQueued
    /\ tPc' = "returned"
    /\ UNCHANGED <<clock, tDork, tQueued, tCrawled, iterKind, iterStart, outsideTime>>

NextTime ==
    \/ \E gotoOk \in BOOLEAN, gotoDelay \in GotoDelays, selDelay \in SelectorDelays,
          n \in 0..MAX_PAGES_PER_DORK : TimedSearch(gotoOk, gotoDelay, selDelay, n)
    \/ TimedSearchBreak
    \/ TimedSearchEnd
    \/ \E gotoOk \in BOOLEAN, gotoDelay \in GotoDelays : TimedFetch(gotoOk, gotoDelay)
    \/ TimedFetchBreak
    \/ TimedFetchEnd

InitTime ==
    CrawlIdle /\ ScoreIdle /\ ReconIdle /\ DorksIdle /\ MergeIdle /\ BrowserIdle
    /\ RateIdle /\ CacheIdle /\ RegexIdle /\ TimeIdle

SpecTime == InitTime /\ [][NextTime]_vars

====
